---- MODULE Spec2Model ----
(***************************************************************************)
(* A model of the clinic appointment assistant:                            *)
(*   - the calendar store   (src/services/calendar_service.py)             *)
(*   - the phone-oriented appointment service                              *)
(*                           (src/services/appointment_service.py)         *)
(*   - the intent detector  (src/mcp/intents.py)                           *)
(*   - the dialogue orchestrator MCPServer.process_message                 *)
(*                           (src/mcp/server.py)                           *)
(*                                                                         *)
(* Time is counted in minutes from a Monday 00:00 (day 0 is a Monday), so  *)
(* that weekday, hour and minute are computed from an instant exactly as   *)
(* datetime does.  Every datetime the program builds has second = 0.       *)
(* The appointments file is modelled as reliable: load_appointments        *)
(* returns what save_appointments last wrote and save returns True.        *)
(***************************************************************************)
EXTENDS Integers, Sequences, FiniteSets, TLC

VARIABLES
    store,      \* the appointments file: a sequence of appointment records
    now,        \* the current instant, datetime.now(tz)
    nextId,     \* number of ids handed out so far (uuid4 is modelled as fresh)
    sessions,   \* MCPServer.sessions: session id -> session record
    turns,      \* number of process_message calls so far (names history entries)
    calls,      \* calendar calls in progress: caller -> position and local variables
    last        \* the last operation, its inputs and what it returned

vars == <<store, now, nextId, sessions, turns, calls, last>>

(***************************************************************************)
(* Bounds of the model.                                                    *)
(***************************************************************************)
MaxIds == 2         \* appointments ever created in one run
MaxTurns == 3       \* process_message calls in one run of Spec
MaxLongTurns == 6   \* process_message calls in one run of SpecLong

(***************************************************************************)
(* Python's None, for strings, ids, durations and datetimes.               *)
(***************************************************************************)
NoneVal == "None"
NoId == 0
NoDuration == 0
NoTime == <<>>

(***************************************************************************)
(* datetime arithmetic.                                                    *)
(***************************************************************************)
At(d, h, m) == d * 1440 + h * 60 + m
DayOf(t) == t \div 1440
WeekdayOf(t) == DayOf(t) % 7              \* datetime.weekday(): Monday = 0
HourOf(t) == (t % 1440) \div 60
MinuteOf(t) == t % 60

\* datetime.isoformat(): the stored text of an instant, <<day, hour, minute>>;
\* texts of one timezone compare as the instants do, field by field.
IsoFormat(t) == <<DayOf(t), HourOf(t), MinuteOf(t)>>
\* datetime.fromisoformat()
FromIsoFormat(s) == At(s[1], s[2], s[3])
\* strftime('%I:%M %p')
Strftime12(t) ==
    <<IF HourOf(t) % 12 = 0 THEN 12 ELSE HourOf(t) % 12, MinuteOf(t),
      IF HourOf(t) < 12 THEN "AM" ELSE "PM">>

(***************************************************************************)
(* CLINIC_CONFIG (imported from app.config; its values are not in src/):   *)
(* Monday-Friday 9-18, Saturday 9-14, Sunday closed, 30 minute slots.      *)
(***************************************************************************)
AppointmentDuration == 30
NoHours == <<>>
WorkingHours(weekday) ==
    IF weekday \in 0..4 THEN <<9, 18>>
    ELSE IF weekday = 5 THEN <<9, 14>>
    ELSE NoHours

(***************************************************************************)
(* check_availability                                                      *)
(***************************************************************************)
Min(S) == CHOOSE x \in S : \A y \in S : x <= y

OverlapsStartOnly(start_time, end_time, apt_start, apt_end) ==
    apt_start <= start_time /\ start_time < apt_end

\* line 217: (start_time < apt_end) and (end_time > apt_start)
Overlaps(start_time, end_time, apt_start, apt_end) ==
    (start_time < apt_end) /\ (end_time > apt_start)

IsExcludedNever(apt, exclude_appointment_id) == FALSE

\* line 210: exclude_appointment_id and apt['id'] == exclude_appointment_id
IsExcluded(apt, exclude_appointment_id) ==
    exclude_appointment_id # NoId /\ apt.id = exclude_appointment_id

OutsideHoursInclusiveEnd(hour, hours) == hour < hours[1] \/ hour > hours[2]

OutsideHoursAfterClosingOnly(hour, hours) == hour >= hours[2]

\* line 239: hour < hours["start"] or hour >= hours["end"]
OutsideHours(hour, hours) == hour < hours[1] \/ hour >= hours[2]

DefaultDuration(duration) ==
    IF duration = NoDuration THEN AppointmentDuration ELSE duration

CheckAvailabilityNamesPatient(appointments, start_time, duration0, exclude_appointment_id, clock) ==
    LET duration == DefaultDuration(duration0)
        end_time == start_time + duration
        conflicts == {i \in 1..Len(appointments) :
                        /\ ~IsExcluded(appointments[i], exclude_appointment_id)
                        /\ Overlaps(start_time, end_time,
                                    FromIsoFormat(appointments[i].start_time),
                                    FromIsoFormat(appointments[i].end_time))}
        hours == WorkingHours(WeekdayOf(start_time))
    IN  IF conflicts # {}
        THEN LET apt == appointments[Min(conflicts)]
             IN  [available |-> FALSE,
                  message |-> "Time slot is already booked by " \o apt.patient_name,
                  reason |-> "conflict",
                  conflicting_appointment_id |-> apt.id,
                  conflicting_time |-> Strftime12(FromIsoFormat(apt.start_time))]
        ELSE IF hours = NoHours
        THEN [available |-> FALSE, message |-> "Clinic closed", reason |-> "closed"]
        ELSE IF OutsideHours(HourOf(start_time), hours)
        THEN [available |-> FALSE, message |-> "Outside working hours",
              reason |-> "outside_hours"]
        ELSE IF start_time < clock
        THEN [available |-> FALSE, message |-> "Cannot book in the past",
              reason |-> "past"]
        ELSE [available |-> TRUE, message |-> "Available"]

\* lines 196-259
CheckAvailability(appointments, start_time, duration0, exclude_appointment_id, clock) ==
    LET duration == DefaultDuration(duration0)
        end_time == start_time + duration
        conflicts == {i \in 1..Len(appointments) :
                        /\ ~IsExcluded(appointments[i], exclude_appointment_id)
                        /\ Overlaps(start_time, end_time,
                                    FromIsoFormat(appointments[i].start_time),
                                    FromIsoFormat(appointments[i].end_time))}
        hours == WorkingHours(WeekdayOf(start_time))
    IN  IF conflicts # {}
        THEN LET apt == appointments[Min(conflicts)]
             IN  [available |-> FALSE,
                  message |-> "Time slot is already booked",
                  reason |-> "conflict",
                  conflicting_appointment_id |-> apt.id,
                  conflicting_time |-> Strftime12(FromIsoFormat(apt.start_time))]
        ELSE IF hours = NoHours
        THEN [available |-> FALSE, message |-> "Clinic closed", reason |-> "closed"]
        ELSE IF OutsideHours(HourOf(start_time), hours)
        THEN [available |-> FALSE, message |-> "Outside working hours",
              reason |-> "outside_hours"]
        ELSE IF start_time < clock
        THEN [available |-> FALSE, message |-> "Cannot book in the past",
              reason |-> "past"]
        ELSE [available |-> TRUE, message |-> "Available"]

(***************************************************************************)
(* get_available_slots                                                     *)
(***************************************************************************)
\* lines 428-432: the while loop, from current up to end
RECURSIVE SlotsFrom(_, _, _, _, _)
SlotsFrom(appointments, current, end, duration, clock) ==
    IF ~(current < end) THEN <<>>
    ELSE (IF CheckAvailability(appointments, current, duration, NoId, clock).available
          THEN <<Strftime12(current)>> ELSE <<>>)
         \o SlotsFrom(appointments, current + duration, end, duration, clock)

RECURSIVE EverySlotFrom(_, _, _)
EverySlotFrom(current, end, duration) ==
    IF ~(current < end) THEN <<>>
    ELSE <<Strftime12(current)>> \o EverySlotFrom(current + duration, end, duration)

GetAvailableSlotsUnchecked(appointments, date, duration0, clock) ==
    LET hours == WorkingHours(WeekdayOf(date))
    IN  IF hours = NoHours THEN <<>>
        ELSE EverySlotFrom(At(DayOf(date), hours[1], 0), At(DayOf(date), hours[2], 0),
                           DefaultDuration(duration0))

\* lines 413-434
GetAvailableSlots(appointments, date, duration0, clock) ==
    LET duration == DefaultDuration(duration0)
        hours == WorkingHours(WeekdayOf(date))
    IN  IF hours = NoHours THEN <<>>
        ELSE SlotsFrom(appointments, At(DayOf(date), hours[1], 0),
                       At(DayOf(date), hours[2], 0), duration, clock)

(***************************************************************************)
(* create_appointment.  Each calendar operation yields [result, store]:    *)
(* what it returns and what the file holds afterwards.                     *)
(***************************************************************************)
Get(rec, key, default) == IF key \in DOMAIN rec THEN rec[key] ELSE default

NewAppointmentNoEnd(appointment_id, patient_name, patient_phone, start_time, duration, reason, doctor_name, clock) ==
    [id |-> appointment_id, patient_name |-> patient_name,
     patient_phone |-> patient_phone, start_time |-> IsoFormat(start_time),
     end_time |-> IsoFormat(start_time), duration |-> duration,
     reason |-> reason, doctor_name |-> doctor_name,
     created_at |-> IsoFormat(clock), status |-> "confirmed"]

\* lines 284-298
NewAppointment(appointment_id, patient_name, patient_phone, start_time, duration, reason, doctor_name, clock) ==
    [id |-> appointment_id, patient_name |-> patient_name,
     patient_phone |-> patient_phone, start_time |-> IsoFormat(start_time),
     end_time |-> IsoFormat(start_time + duration), duration |-> duration,
     reason |-> reason, doctor_name |-> doctor_name,
     created_at |-> IsoFormat(clock), status |-> "confirmed"]

CreateAppointment(appointments, fresh_id, patient_name, patient_phone, start_time, duration0, reason, doctor_name, clock) ==
    LET duration == DefaultDuration(duration0)
        availability == CheckAvailability(appointments, start_time, duration, NoId, clock)
        appointment == NewAppointment(fresh_id, patient_name, patient_phone,
                                      start_time, duration, reason, doctor_name, clock)
    IN  IF ~availability.available
        THEN [result |-> [success |-> FALSE,
                          message |-> availability.message,
                          reason |-> availability.reason,
                          conflicting_time |-> Get(availability, "conflicting_time", NoTime)],
              store |-> appointments]
        ELSE [result |-> [success |-> TRUE,
                          message |-> "Appointment booked successfully",
                          appointment_id |-> fresh_id,
                          appointment |-> appointment],
              store |-> Append(appointments, appointment)]

(***************************************************************************)
(* cancel_appointment                                                      *)
(***************************************************************************)
CancelAppointmentClearsOnMiss(appointments, appointment_id) ==
    LET kept == SelectSeq(appointments, LAMBDA apt : apt.id # appointment_id)
    IN  IF Len(kept) < Len(appointments)
        THEN [result |-> [success |-> TRUE, message |-> "Appointment cancelled"],
              store |-> kept]
        ELSE [result |-> [success |-> FALSE, message |-> "Appointment not found"],
              store |-> <<>>]

CancelAppointment(appointments, appointment_id) ==
    LET kept == SelectSeq(appointments, LAMBDA apt : apt.id # appointment_id)
    IN  IF Len(kept) < Len(appointments)
        THEN [result |-> [success |-> TRUE, message |-> "Appointment cancelled"],
              store |-> kept]
        ELSE [result |-> [success |-> FALSE, message |-> "Appointment not found"],
              store |-> appointments]

(***************************************************************************)
(* update_appointment.  updates is a record with any of the keys           *)
(* start_time, doctor_name, reason.                                        *)
(***************************************************************************)
ApplyUpdatesDropsReason(apt, updates, duration) ==
    [apt EXCEPT !.start_time = IF "start_time" \in DOMAIN updates
                               THEN IsoFormat(updates.start_time) ELSE @,
                !.end_time = IF "start_time" \in DOMAIN updates
                             THEN IsoFormat(updates.start_time + duration) ELSE @,
                !.doctor_name = IF "doctor_name" \in DOMAIN updates
                                THEN updates.doctor_name ELSE @,
                !.reason = IF "reason" \in DOMAIN updates THEN updates.reason ELSE NoneVal]

\* lines 377-390: the supplied fields written into the record
ApplyUpdates(apt, updates, duration) ==
    LET timed == IF "start_time" \in DOMAIN updates
                 THEN [apt EXCEPT !.start_time = IsoFormat(updates.start_time),
                                  !.end_time = IsoFormat(updates.start_time + duration)]
                 ELSE apt
        doctored == IF "doctor_name" \in DOMAIN updates
                    THEN [timed EXCEPT !.doctor_name = updates.doctor_name]
                    ELSE timed
    IN  IF "reason" \in DOMAIN updates
        THEN [doctored EXCEPT !.reason = updates.reason]
        ELSE doctored

UpdateAppointment(appointments, appointment_id, updates, clock) ==
    LET found == {i \in 1..Len(appointments) : appointments[i].id = appointment_id}
    IN  IF found = {}
        THEN [result |-> [success |-> FALSE, message |-> "Appointment not found"],
              store |-> appointments]
        ELSE
        LET apt_index == Min(found)
            apt == appointments[apt_index]
            duration == apt.duration
            has_start == "start_time" \in DOMAIN updates
            availability ==
                IF has_start
                THEN CheckAvailability(appointments, updates.start_time, duration,
                                       appointment_id, clock)
                ELSE [available |-> TRUE, message |-> "Available"]
            reasoned == ApplyUpdates(apt, updates, duration)
        IN  IF ~availability.available
            THEN [result |-> [success |-> FALSE,
                              message |-> availability.message,
                              reason |-> availability.reason,
                              conflicting_time |-> Get(availability, "conflicting_time", NoTime)],
                  store |-> appointments]
            ELSE [result |-> [success |-> TRUE,
                              message |-> "Appointment updated successfully",
                              appointment |-> reasoned],
                  store |-> [appointments EXCEPT ![apt_index] = reasoned]]

(***************************************************************************)
(* parse_datetime, for the date and time texts the model uses.  Only the   *)
(* day of the parsed date matters: hour and minute are replaced by those   *)
(* of the parsed time (result = target_date.replace(hour, minute)).        *)
(***************************************************************************)
NoDatetime == 0 - 1
DayNames ==
    [monday |-> 0, tuesday |-> 1, wednesday |-> 2, thursday |-> 3,
     friday |-> 4, saturday |-> 5, sunday |-> 6,
     lundi |-> 0, mardi |-> 1, mercredi |-> 2, jeudi |-> 3,
     vendredi |-> 4, samedi |-> 5, dimanche |-> 6]
Pad2(n) == IF n < 10 THEN "0" \o ToString(n) ELSE ToString(n)
\* strftime('%Y-%m-%d') of a day, and strftime('%H:%M') of an instant
DateText(d) == "D-" \o Pad2(d)
ClockText(t) == Pad2(HourOf(t)) \o ":" \o Pad2(MinuteOf(t))
ParseDays == 0..20
ParseMinutes == {0, 15, 30, 45}

ParseDateOnOrAfter(date_str, clock) ==
    IF date_str \in DOMAIN DayNames
    THEN LET days_ahead == DayNames[date_str] - WeekdayOf(clock)
         IN  DayOf(clock) + (IF days_ahead < 0 THEN days_ahead + 7 ELSE days_ahead)
    ELSE NoDatetime

\* lines 76-135: the day the date text names, or NoDatetime
ParseDate(date_str, clock) ==
    IF date_str = "today" THEN DayOf(clock)
    ELSE IF date_str = "tomorrow" THEN DayOf(clock) + 1
    ELSE IF date_str = "yesterday" THEN DayOf(clock) - 1
    ELSE IF date_str \in DOMAIN DayNames
    THEN LET days_ahead == DayNames[date_str] - WeekdayOf(clock)
         IN  DayOf(clock) + (IF days_ahead <= 0 THEN days_ahead + 7 ELSE days_ahead)
    ELSE IF \E d \in ParseDays : DateText(d) = date_str
    THEN CHOOSE d \in ParseDays : DateText(d) = date_str
    ELSE NoDatetime

\* strptime(text, '%H:%M') of the texts it accepts: one- or two-digit hour
ClockTexts ==
    [s \in {ToString(h) \o ":" \o Pad2(m) : h \in 0..23, m \in ParseMinutes}
            \cup {Pad2(h) \o ":" \o Pad2(m) : h \in 0..23, m \in ParseMinutes} |->
        CHOOSE hm \in (0..23) \X ParseMinutes :
            s \in {ToString(hm[1]) \o ":" \o Pad2(hm[2]), Pad2(hm[1]) \o ":" \o Pad2(hm[2])}]

\* lines 138-175: <<hour, minute>>, or <<>> when the text is not a time
ParseTime(time_str) ==
    IF \E h \in 1..12 : time_str = ToString(h) \o "am" \/ time_str = ToString(h) \o "pm"
    THEN LET h == CHOOSE h \in 1..12 :
                    time_str = ToString(h) \o "am" \/ time_str = ToString(h) \o "pm"
         IN  IF time_str = ToString(h) \o "am" THEN <<h % 12, 0>> ELSE <<(h % 12) + 12, 0>>
    ELSE IF time_str \in DOMAIN ClockTexts THEN ClockTexts[time_str]
    ELSE IF \E h \in 0..99 : time_str = ToString(h)
    THEN LET hour == CHOOSE h \in 0..99 : time_str = ToString(h)
         IN  IF hour = 12 THEN <<12, 0>>
             ELSE IF 1 <= hour /\ hour <= 6 THEN <<hour + 12, 0>>
             ELSE IF 7 <= hour /\ hour <= 11 THEN <<hour, 0>>
             ELSE IF 13 <= hour /\ hour <= 23 THEN <<hour, 0>>
             ELSE <<>>
    ELSE <<>>

ParseDatetime(date_str, time_str, clock) ==
    LET d == ParseDate(date_str, clock)
        hm == ParseTime(time_str)
    IN  IF d = NoDatetime \/ hm = <<>> THEN NoDatetime ELSE At(d, hm[1], hm[2])

(***************************************************************************)
(* AppointmentService                                                      *)
(***************************************************************************)
\* Python truthiness of an optional string
Truthy(v) == v # NoneVal /\ v # ""

TextLessReversed(a, b) ==
    \/ a[1] > b[1]
    \/ a[1] = b[1] /\ a[2] > b[2]
    \/ a[1] = b[1] /\ a[2] = b[2] /\ a[3] > b[3]

\* the order of isoformat texts
TextLess(a, b) ==
    \/ a[1] < b[1]
    \/ a[1] = b[1] /\ a[2] < b[2]
    \/ a[1] = b[1] /\ a[2] = b[2] /\ a[3] < b[3]

\* list.sort(key=lambda x: x['start_time']): a stable sort
RECURSIVE SortByStartTime(_)
SortByStartTime(appointments) ==
    IF Len(appointments) <= 1 THEN appointments
    ELSE LET n == Len(appointments)
             x == appointments[n]
             sorted == SortByStartTime(SubSeq(appointments, 1, n - 1))
             k == Cardinality({i \in 1..(n - 1) : ~TextLess(x.start_time, sorted[i].start_time)})
         IN  SubSeq(sorted, 1, k) \o <<x>> \o SubSeq(sorted, k + 1, n - 1)

GetAppointmentsByPhone(appointments, phone) ==
    SelectSeq(appointments, LAMBDA apt : apt.patient_phone = phone)

BookAppointment(appointments, fresh_id, patient_name, patient_phone, date, time, reason0, doctor_name0, clock) ==
    LET start_time == ParseDatetime(date, time, clock)
        doctor_name == IF Truthy(doctor_name0) THEN doctor_name0 ELSE "Any available doctor"
        reason == IF Truthy(reason0) THEN reason0 ELSE "General consultation"
    IN  IF start_time = NoDatetime
        THEN [result |-> [success |-> FALSE, message |-> "Could not parse date/time"],
              store |-> appointments]
        ELSE CreateAppointment(appointments, fresh_id, patient_name, patient_phone,
                               start_time, NoDuration, reason, doctor_name, clock)

ViewAppointmentsFindsNone(appointments, phone) ==
    [success |-> TRUE, appointments |-> <<>>,
     message |-> "No appointments found for this phone number"]

ViewAppointments(appointments, phone) ==
    LET mine == GetAppointmentsByPhone(appointments, phone)
    IN  IF Len(mine) = 0
        THEN [success |-> TRUE, appointments |-> <<>>,
              message |-> "No appointments found for this phone number"]
        ELSE [success |-> TRUE, appointments |-> SortByStartTime(mine),
              message |-> "Found appointment(s)"]

UpcomingOrPast(appointments, clock) == appointments

Upcoming(appointments, clock) ==
    SelectSeq(appointments, LAMBDA apt : FromIsoFormat(apt.start_time) > clock)

CancelAppointmentByPhone(appointments, phone, clock) ==
    LET mine == GetAppointmentsByPhone(appointments, phone)
        upcoming == SortByStartTime(Upcoming(mine, clock))
    IN  IF Len(mine) = 0
        THEN [result |-> [success |-> FALSE,
                          message |-> "No appointments found for this phone number"],
              store |-> appointments]
        ELSE IF Len(upcoming) = 0
        THEN [result |-> [success |-> FALSE, message |-> "No upcoming appointments found"],
              store |-> appointments]
        ELSE LET r == CancelAppointment(appointments, upcoming[1].id)
             IN  IF r.result.success
                 THEN [result |-> [success |-> TRUE, message |-> "Cancelled appointment",
                                   cancelled_appointment |-> upcoming[1]],
                       store |-> r.store]
                 ELSE r

UpdateAppointmentByPhone(appointments, phone, new_date, new_time, new_doctor, new_reason, clock) ==
    LET mine == GetAppointmentsByPhone(appointments, phone)
        upcoming == SortByStartTime(Upcoming(mine, clock))
        both == Truthy(new_date) /\ Truthy(new_time)
        new_start_time == IF both THEN ParseDatetime(new_date, new_time, clock) ELSE NoDatetime
        keys == (IF both THEN {"start_time"} ELSE {})
                \cup (IF Truthy(new_doctor) THEN {"doctor_name"} ELSE {})
                \cup (IF Truthy(new_reason) THEN {"reason"} ELSE {})
        updates == [k \in keys |->
                       IF k = "start_time" THEN new_start_time
                       ELSE IF k = "doctor_name" THEN new_doctor ELSE new_reason]
    IN  IF Len(mine) = 0
        THEN [result |-> [success |-> FALSE,
                          message |-> "No appointments found for this phone number"],
              store |-> appointments]
        ELSE IF Len(upcoming) = 0
        THEN [result |-> [success |-> FALSE,
                          message |-> "No upcoming appointments found to modify"],
              store |-> appointments]
        ELSE IF both /\ new_start_time = NoDatetime
        THEN [result |-> [success |-> FALSE, message |-> "Could not parse new date/time"],
              store |-> appointments]
        ELSE IF keys = {}
        THEN [result |-> [success |-> FALSE, message |-> "No changes specified"],
              store |-> appointments]
        ELSE UpdateAppointment(appointments, upcoming[1].id, updates, clock)

(***************************************************************************)
(* The keyword lists of the program                                        *)
(***************************************************************************)
IntentOrder == <<"greet", "book", "edit", "cancel", "view", "goodbye", "help">>
IntentKeywords ==
    [greet |-> {"hello", "hi", "hey", "good morning", "good afternoon",
                "bonjour", "salut", "salam"},
     book |-> {"book", "schedule", "appointment", "make", "reserve",
               "réserver", "rendez-vous", "prendre"},
     edit |-> {"change", "modify", "reschedule", "update", "edit",
               "move", "changer", "modifier"},
     cancel |-> {"cancel", "delete", "remove", "annuler", "supprimer"},
     view |-> {"view", "show", "list", "my appointments", "check",
               "voir", "afficher", "mes rendez-vous"},
     goodbye |-> {"bye", "goodbye", "see you", "thanks", "thank you",
                  "au revoir", "merci", "bye bye"},
     help |-> {"help", "what can you do", "options", "aide", "comment"}]
ExitWords == {"cancel", "bye", "goodbye", "stop", "quit", "exit", "annuler"}
ActiveEditStages == {"shown_appointment", "collecting_changes", "awaiting_final_confirmation"}
ConfirmWords == {"yes", "confirm", "ok", "correct", "right", "yep", "yeah", "oui",
                 "si", "good", "sure", "proceed"}
CancelWords == {"no", "cancel", "nope", "nah", "stop", "non", "don't"}
Words ==
    UNION {IntentKeywords[intent] : intent \in DOMAIN IntentKeywords}
        \cup ExitWords \cup ConfirmWords \cup CancelWords

(***************************************************************************)
(* Messages are texts.  `word in message_lower` is substring search in     *)
(* the lower-cased message; the detector also strips the blanks around it. *)
(***************************************************************************)
UpperLetters == "ABCDEFGHIJKLMNOPQRSTUVWXYZ"
LowerLetters == "abcdefghijklmnopqrstuvwxyz"
LowerChar(c) ==
    LET at == {i \in 1..Len(UpperLetters) : SubSeq(UpperLetters, i, i) = c}
    IN  IF at = {} THEN c ELSE SubSeq(LowerLetters, Min(at), Min(at))
\* str.lower()
RECURSIVE Lower(_)
Lower(text) ==
    IF Len(text) = 0 THEN text
    ELSE LowerChar(SubSeq(text, 1, 1)) \o Lower(SubSeq(text, 2, Len(text)))
\* str.strip()
RECURSIVE Strip(_)
Strip(text) ==
    IF Len(text) = 0 THEN text
    ELSE IF SubSeq(text, 1, 1) = " " THEN Strip(SubSeq(text, 2, Len(text)))
    ELSE IF SubSeq(text, Len(text), Len(text)) = " "
    THEN Strip(SubSeq(text, 1, Len(text) - 1))
    ELSE text
\* word in text
Occurs(word, text) ==
    \E i \in 1..(Len(text) - Len(word) + 1) : SubSeq(text, i, i + Len(word) - 1) = word

\* the messages of the dialogue
Messages ==
    { "yes", "no", "yes, book another", "make it for me", "delete it",
      "change the time", "list them", "0555123456", "hello", "bye", "help" }
\* the messages given to the detector alone
DetectMessages ==
    { "Hello, book an appointment", "cancel my appointment", "reschedule",
      "i want to modify or delete", "show my appointments", "thanks, bye",
      "what can you do", "update and check", " STOP ", "quit", "exit now",
      "annuler", "Goodbye", "cancel it", "make it 10", "tomorrow at 10",
      "remove it", "hey", "merci", "options", "voir", "view or help",
      "stop the edit", "see you", "", "move it", "thank you for the help",
      "edit", "Bye Bye", "non" }
AllMessages == Messages \cup DetectMessages

\* every keyword of the program that occurs in the message, per message
KeywordTable ==
    [message \in AllMessages |->
        {word \in Words : Occurs(word, Strip(Lower(message)))}]
KeywordsIn(message) == KeywordTable[message]

\* any(word in message_lower for word in words)
ContainsAny(message, words) == KeywordsIn(message) \cap words # {}

\* the value of a singleton set: an intermediate result computed once
The(S) == CHOOSE x \in S : TRUE

(***************************************************************************)
(* IntentDetector                                                          *)
(***************************************************************************)
KeywordMatchLast(message) ==
    LET matching == {i \in 1..Len(IntentOrder) :
                        ContainsAny(message, IntentKeywords[IntentOrder[i]])}
    IN  IF matching = {} THEN "unclear"
        ELSE IntentOrder[CHOOSE i \in matching : \A j \in matching : j <= i]

\* lines 89-98: the first intent of the table one of whose keywords occurs
KeywordMatch(message) ==
    LET matching == {i \in 1..Len(IntentOrder) :
                        ContainsAny(message, IntentKeywords[IntentOrder[i]])}
    IN  IF matching = {} THEN "unclear" ELSE IntentOrder[Min(matching)]

\* the keyword scan of every message of the model
KeywordIntent == [message \in AllMessages |-> KeywordMatch(message)]
ExitMessages == {message \in AllMessages : ContainsAny(message, ExitWords)}

DetectWithoutContext(message, edit_stage) == KeywordIntent[message]

\* lines 56-98
Detect(message, edit_stage) ==
    IF edit_stage \in ActiveEditStages /\ message \notin ExitMessages
    THEN "edit"
    ELSE KeywordIntent[message]

RequiresLLMForActions(intent) == intent \in {"book", "edit", "cancel", "view"}

\* lines 101-115
RequiresLLM(intent) == intent \in {"book", "edit", "cancel", "view", "unclear"}

(***************************************************************************)
(* MCPServer: sessions.  entities is a dict: a function whose domain is    *)
(* the set of keys present.  A history entry's content is the number of    *)
(* the turn it was said in.                                                *)
(***************************************************************************)
HistoryLimit == 10
EmptyDict == [k \in {} |-> ""]
NewSession ==
    [history |-> <<>>, entities |-> EmptyDict, last_intent |-> NoneVal,
     awaiting_confirmation |-> NoneVal, pending_action |-> NoneVal,
     edit_stage |-> NoneVal]

\* dict.get(key)
EntGet(entities, key) == Get(entities, key, NoneVal)
DictReplace(entities, other) == IF other = EmptyDict THEN entities ELSE other

\* dict.update(other)
DictUpdate(entities, other) ==
    [k \in DOMAIN entities \cup DOMAIN other |->
        IF k \in DOMAIN other THEN other[k] ELSE entities[k]]

ConfirmingMessages == {message \in Messages : ContainsAny(message, ConfirmWords)}
NegativeMessages == {message \in Messages : ContainsAny(message, CancelWords)}
IsConfirmingAnything(message) == TRUE
IsConfirming(message) == message \in ConfirmingMessages
IsCancelingConfirmation(message) ==
    message \in NegativeMessages /\ ~IsConfirming(message)

HasValidChangesWithPlaceholder(entities) ==
    \/ Truthy(EntGet(entities, "date"))
    \/ Truthy(EntGet(entities, "time"))
    \/ Truthy(EntGet(entities, "doctor_name"))
    \/ Truthy(EntGet(entities, "reason"))

\* lines 77-89 and 188-205
HasValidChanges(entities) ==
    \/ Truthy(EntGet(entities, "date")) /\ EntGet(entities, "date") # "date"
    \/ Truthy(EntGet(entities, "time"))
    \/ Truthy(EntGet(entities, "doctor_name"))
    \/ Truthy(EntGet(entities, "reason"))

RequiredFieldsPhoneOnly == {"patient_phone"}
RequiredFields == {"patient_name", "patient_phone", "date", "time"}
HasAll(entities) == \A f \in RequiredFields : Truthy(EntGet(entities, f))

NoActionResult == [none |-> TRUE]
Succeeded(action_result) == "success" \in DOMAIN action_result /\ action_result.success

HandleBooking(entities, appointments, fresh_id, clock) ==
    IF ~HasAll(entities)
    THEN [result |-> [success |-> FALSE, message |-> "Still need fields"],
          store |-> appointments]
    ELSE BookAppointment(appointments, fresh_id, entities.patient_name,
                         entities.patient_phone, entities.date, entities.time,
                         Get(entities, "reason", "General consultation"),
                         Get(entities, "doctor_name", "Any available doctor"), clock)

HandleEdit(entities, appointments, clock) ==
    LET phone == EntGet(entities, "patient_phone")
        view_result == ViewAppointments(appointments, phone)
        current_start == FromIsoFormat(view_result.appointments[1].start_time)
        date0 == EntGet(entities, "date")
        time0 == EntGet(entities, "time")
        time_val == IF Truthy(date0) /\ ~Truthy(time0) THEN ClockText(current_start) ELSE time0
        date_val == IF Truthy(time_val) /\ ~Truthy(date0)
                    THEN DateText(DayOf(current_start)) ELSE date0
    IN  IF ~Truthy(phone)
        THEN [result |-> [success |-> FALSE, message |-> "Phone number required"],
              store |-> appointments]
        ELSE IF Len(view_result.appointments) = 0
        THEN [result |-> [success |-> FALSE, message |-> "No appointments found"],
              store |-> appointments]
        ELSE IF Truthy(date0) /\ date0 = "date"
        THEN [result |-> [success |-> FALSE,
                          message |-> "Please provide the actual new date"],
              store |-> appointments]
        ELSE UpdateAppointmentByPhone(appointments, phone, date_val, time_val,
                                      EntGet(entities, "doctor_name"),
                                      EntGet(entities, "reason"), clock)

(***************************************************************************)
(* MCPServer.process_message.  One turn yields                             *)
(*   session, deleted : the session afterwards, or that it was destroyed   *)
(*   store, created   : the appointments file afterwards; an id was used   *)
(*   path             : which part of the handler served the turn          *)
(*   intent           : the intent the turn returns                        *)
(*   executed         : the service operation the turn ran, if any         *)
(*   action_result    : its result (NoActionResult for None)               *)
(*   detected         : IntentDetector.detect was called                   *)
(*   extraction, generation : the LLM collaborators were called            *)
(* extracted is what extract_entities returned (the empty dict when it     *)
(* failed).                                                                *)
(***************************************************************************)
Say(history, turn_no) ==
    history \o <<[role |-> "user", content |-> turn_no],
                 [role |-> "assistant", content |-> turn_no]>>

\* lines 368-369
Truncate(history) ==
    IF Len(history) > HistoryLimit
    THEN SubSeq(history, Len(history) - HistoryLimit + 1, Len(history))
    ELSE history

ConfirmDoneKeepsStage(session, turn_no, branch, r) ==
    LET s1 == IF branch \in {"cancel", "book", "edit"}
              THEN [session EXCEPT !.awaiting_confirmation = NoneVal,
                                   !.pending_action = NoneVal]
              ELSE session
        s2 == [s1 EXCEPT !.history = Say(s1.history, turn_no)]
    IN  [session |-> IF Succeeded(r.result)
                     THEN [s2 EXCEPT !.entities = EmptyDict]
                     ELSE s2,
         deleted |-> FALSE, store |-> r.store,
         created |-> (branch = "book" /\ Succeeded(r.result)),
         path |-> "confirm", intent |-> session.awaiting_confirmation,
         executed |-> branch, action_result |-> r.result, detected |-> FALSE,
         extraction |-> FALSE, generation |-> TRUE]

\* lines 115-146: after the confirmed action ran with result r
ConfirmDone(session, turn_no, branch, r) ==
    LET s1 == IF branch \in {"cancel", "book"}
              THEN [session EXCEPT !.awaiting_confirmation = NoneVal,
                                   !.pending_action = NoneVal]
              ELSE IF branch = "edit"
              THEN [session EXCEPT !.awaiting_confirmation = NoneVal,
                                   !.pending_action = NoneVal,
                                   !.edit_stage = NoneVal]
              ELSE session
        s2 == [s1 EXCEPT !.history = Say(s1.history, turn_no)]
    IN  [session |-> IF Succeeded(r.result)
                     THEN [s2 EXCEPT !.entities = EmptyDict, !.edit_stage = NoneVal]
                     ELSE s2,
         deleted |-> FALSE, store |-> r.store,
         created |-> (branch = "book" /\ Succeeded(r.result)),
         path |-> "confirm", intent |-> session.awaiting_confirmation,
         executed |-> branch, action_result |-> r.result, detected |-> FALSE,
         extraction |-> FALSE, generation |-> TRUE]

\* lines 61-146
ConfirmTurn(session, appointments, fresh_id, clock, turn_no) ==
    LET confirmation_type == session.awaiting_confirmation
        phone == EntGet(session.entities, "patient_phone")
        branch == IF confirmation_type = "cancel" /\ Truthy(phone) THEN "cancel"
                  ELSE IF confirmation_type = "edit" /\ Truthy(phone)
                  THEN (IF HasValidChanges(session.entities) THEN "edit" ELSE "reprompt")
                  ELSE IF confirmation_type = "book" THEN "book"
                  ELSE "none"
    IN  IF branch = "reprompt"
        THEN [session |-> [session EXCEPT !.awaiting_confirmation = NoneVal,
                                          !.edit_stage = "collecting_changes",
                                          !.history = Say(session.history, turn_no)],
              deleted |-> FALSE, store |-> appointments, created |-> FALSE,
              path |-> "confirm", intent |-> "edit", executed |-> "none",
              action_result |-> NoActionResult, detected |-> FALSE,
              extraction |-> FALSE, generation |-> FALSE]
        ELSE The({ ConfirmDone(session, turn_no, branch, r) :
                   r \in { IF branch = "cancel"
                           THEN CancelAppointmentByPhone(appointments, phone, clock)
                           ELSE IF branch = "edit"
                           THEN HandleEdit(session.entities, appointments, clock)
                           ELSE IF branch = "book"
                           THEN HandleBooking(session.entities, appointments, fresh_id, clock)
                           ELSE [result |-> NoActionResult, store |-> appointments] } })

RejectTurnKeepsStage(session, appointments, turn_no) ==
    [session |-> [session EXCEPT !.awaiting_confirmation = NoneVal,
                                 !.pending_action = NoneVal,
                                 !.history = Say(session.history, turn_no)],
     deleted |-> FALSE, store |-> appointments, created |-> FALSE,
     path |-> "reject", intent |-> "confirmation_cancelled", executed |-> "none",
     action_result |-> NoActionResult, detected |-> FALSE,
     extraction |-> FALSE, generation |-> FALSE]

\* lines 149-164
RejectTurn(session, appointments, turn_no) ==
    [session |-> [session EXCEPT !.awaiting_confirmation = NoneVal,
                                 !.pending_action = NoneVal,
                                 !.edit_stage = NoneVal,
                                 !.history = Say(session.history, turn_no)],
     deleted |-> FALSE, store |-> appointments, created |-> FALSE,
     path |-> "reject", intent |-> "confirmation_cancelled", executed |-> "none",
     action_result |-> NoActionResult, detected |-> FALSE,
     extraction |-> FALSE, generation |-> FALSE]

EditCollectKeepsStage(session, appointments, turn_no, extracted) ==
    [session |-> [session EXCEPT
                    !.entities = DictUpdate(@, extracted),
                    !.awaiting_confirmation =
                        IF HasValidChanges(DictUpdate(session.entities, extracted))
                        THEN "edit" ELSE @,
                    !.edit_stage = "collecting_changes",
                    !.history = Say(session.history, turn_no)],
     deleted |-> FALSE, store |-> appointments, created |-> FALSE,
     path |-> "edit_collect", intent |-> "edit", executed |-> "none",
     action_result |-> NoActionResult, detected |-> FALSE,
     extraction |-> TRUE,
     generation |-> HasValidChanges(DictUpdate(session.entities, extracted))]

\* lines 167-233
EditCollectTurn(session, appointments, turn_no, extracted) ==
    LET entities == DictUpdate(session.entities, extracted)
        valid == HasValidChanges(entities)
    IN  [session |-> [session EXCEPT
                        !.entities = entities,
                        !.awaiting_confirmation = IF valid THEN "edit" ELSE @,
                        !.edit_stage = IF valid THEN "awaiting_final_confirmation"
                                       ELSE "collecting_changes",
                        !.history = Say(session.history, turn_no)],
         deleted |-> FALSE, store |-> appointments, created |-> FALSE,
         path |-> "edit_collect", intent |-> "edit", executed |-> "none",
         action_result |-> NoActionResult, detected |-> FALSE,
         extraction |-> TRUE, generation |-> valid]

ViewPendingKept(phone) == "view"

\* lines 299-303: pending_action at the end of a view turn
ViewPending(phone) == IF Truthy(phone) THEN NoneVal ELSE "view"

LooksUpWithoutPhone(session, intent) ==
    \/ intent = "cancel" /\ ~Truthy(session.awaiting_confirmation)
    \/ intent = "edit" /\ ~Truthy(session.awaiting_confirmation)
                      /\ ~Truthy(session.edit_stage)

\* lines 311-313 and 335-337: the appointments of the phone are looked up
LooksUp(session, intent) ==
    /\ Truthy(EntGet(session.entities, "patient_phone"))
    /\ \/ intent = "cancel" /\ ~Truthy(session.awaiting_confirmation)
       \/ intent = "edit" /\ ~Truthy(session.awaiting_confirmation)
                         /\ ~Truthy(session.edit_stage)

\* lines 284-380: the branch of the intent, the reply, the history
MainAction(s1, appointments, turn_no, intent, view_result) ==
    LET phone == EntGet(s1.entities, "patient_phone")
        not_found == [success |-> FALSE, message |-> "No appointments found for phone number"]
        awaiting == Truthy(s1.awaiting_confirmation)
        looks_up == LooksUp(s1, intent)
        found == Len(view_result.appointments) > 0
        s2 == IF intent = "book"
              THEN [s1 EXCEPT !.pending_action = "book",
                              !.awaiting_confirmation =
                                  IF HasAll(s1.entities) /\ ~awaiting THEN "book" ELSE @]
              ELSE IF intent = "view"
              THEN [s1 EXCEPT !.pending_action = ViewPending(phone)]
              ELSE IF intent = "edit"
              THEN [s1 EXCEPT !.pending_action =
                                  IF looks_up /\ ~found THEN NoneVal ELSE "edit",
                              !.edit_stage =
                                  IF looks_up /\ found THEN "shown_appointment" ELSE @]
              ELSE IF intent = "cancel"
              THEN [s1 EXCEPT !.pending_action =
                                  IF looks_up /\ ~found THEN NoneVal ELSE "cancel",
                              !.awaiting_confirmation =
                                  IF looks_up /\ found THEN "cancel" ELSE @]
              ELSE s1
    IN  [session |-> [s2 EXCEPT !.history = Truncate(Say(s2.history, turn_no))],
         deleted |-> FALSE, store |-> appointments, created |-> FALSE,
         path |-> "main", intent |-> intent,
         executed |-> IF intent = "view" /\ Truthy(phone) THEN "view"
                      ELSE IF looks_up THEN "lookup" ELSE "none",
         action_result |-> IF intent = "view" /\ Truthy(phone) THEN view_result
                           ELSE IF looks_up
                           THEN (IF found THEN view_result ELSE not_found)
                           ELSE NoActionResult,
         detected |-> TRUE, extraction |-> RequiresLLM(intent), generation |-> TRUE]

\* lines 248-281: the simple intents, else extraction merged into the session
MainIntent(session, appointments, turn_no, extracted, intent) ==
    IF intent \in {"greet", "help", "goodbye"}
    THEN [session |-> [session EXCEPT !.last_intent = intent],
          deleted |-> (intent = "goodbye"), store |-> appointments, created |-> FALSE,
          path |-> "simple", intent |-> intent, executed |-> "none",
          action_result |-> NoActionResult, detected |-> TRUE,
          extraction |-> FALSE, generation |-> FALSE]
    ELSE The({ MainAction(s1, appointments, turn_no, intent,
                          ViewAppointments(appointments, EntGet(s1.entities, "patient_phone"))) :
               s1 \in { [session EXCEPT !.last_intent = intent,
                                        !.entities = DictUpdate(@, extracted)] } })

\* lines 236-380
MainTurn(session, appointments, turn_no, message, extracted) ==
    The({ MainIntent(session, appointments, turn_no, extracted, intent) :
          intent \in { IF Detect(message, session.edit_stage) = "unclear"
                          /\ Truthy(session.pending_action)
                       THEN session.pending_action
                       ELSE Detect(message, session.edit_stage) } })

TurnRejectFirst(session, appointments, fresh_id, clock, turn_no, message, extracted) ==
    IF Truthy(session.awaiting_confirmation) /\ message \in NegativeMessages
    THEN RejectTurn(session, appointments, turn_no)
    ELSE IF Truthy(session.awaiting_confirmation) /\ IsConfirming(message)
    THEN ConfirmTurn(session, appointments, fresh_id, clock, turn_no)
    ELSE IF session.edit_stage \in {"shown_appointment", "collecting_changes"}
    THEN EditCollectTurn(session, appointments, turn_no, extracted)
    ELSE MainTurn(session, appointments, turn_no, message, extracted)

\* lines 38-380
Turn(session, appointments, fresh_id, clock, turn_no, message, extracted) ==
    IF Truthy(session.awaiting_confirmation) /\ IsConfirming(message)
    THEN ConfirmTurn(session, appointments, fresh_id, clock, turn_no)
    ELSE IF Truthy(session.awaiting_confirmation) /\ IsCancelingConfirmation(message)
    THEN RejectTurn(session, appointments, turn_no)
    ELSE IF session.edit_stage \in {"shown_appointment", "collecting_changes"}
    THEN EditCollectTurn(session, appointments, turn_no, extracted)
    ELSE MainTurn(session, appointments, turn_no, message, extracted)

(***************************************************************************)
(* Inputs of the calendar operations.                                      *)
(***************************************************************************)
StartTimes ==
    { At(4, 8, 30), At(4, 9, 0), At(4, 9, 30), At(4, 10, 0),
      At(4, 18, 0), At(6, 10, 0) }
NowTimes == { At(4, 8, 0), At(4, 9, 10) }
DurationArgs == { NoDuration, 60 }
Phones == { "0555123456" }
UpdateArgs ==
    { [start_time |-> t] : t \in StartTimes }
    \cup { [doctor_name |-> "Dr. Amrani", reason |-> "checkup"] }
IdArgs == 1..(MaxIds + 1)

NoSessions == [s \in {} |-> NoneVal]
NoCalls == [p \in {} |-> NoneVal]

Init ==
    /\ store = <<>>
    /\ now = At(4, 8, 0)
    /\ nextId = 0
    /\ sessions = NoSessions
    /\ calls = NoCalls
    /\ turns = 0
    /\ last = [op |-> "init"]

\* The stored start_time texts of the appointments with this id.
StartTimesOf(appointments, appointment_id) ==
    {appointments[i].start_time : i \in {j \in 1..Len(appointments) : appointments[j].id = appointment_id}}

(***************************************************************************)
(* Calendar actions: one call of a calendar_service function each.         *)
(***************************************************************************)
CalCheck ==
    \E start_time \in StartTimes, duration \in DurationArgs, exclude \in {NoId, 1} :
        /\ last' = [op |-> "check_availability", start_time |-> start_time,
                    duration |-> duration, exclude |-> exclude,
                    result |-> CheckAvailability(store, start_time, duration, exclude, now)]
        /\ UNCHANGED <<calls, store, now, nextId, sessions, turns>>

CalCreate ==
    \E start_time \in StartTimes, duration \in DurationArgs, phone \in Phones :
        /\ nextId < MaxIds
        /\ LET r == CreateAppointment(store, nextId + 1, "Ahmed Benali", phone,
                                      start_time, duration, "Consultation", NoneVal, now)
           IN  /\ store' = r.store
               /\ nextId' = IF r.result.success THEN nextId + 1 ELSE nextId
               /\ last' = [op |-> "create_appointment", start_time |-> start_time,
                           duration |-> duration, patient_phone |-> phone,
                           result |-> r.result]
        /\ UNCHANGED <<calls, now, sessions, turns>>

CalUpdate ==
    \E appointment_id \in IdArgs, updates \in UpdateArgs :
        /\ LET r == UpdateAppointment(store, appointment_id, updates, now)
           IN  /\ store' = r.store
               /\ last' = [op |-> "update_appointment", id |-> appointment_id,
                           updates |-> updates, result |-> r.result,
                           before |-> StartTimesOf(store, appointment_id)]
        /\ UNCHANGED <<calls, now, nextId, sessions, turns>>

CalCancel ==
    \E appointment_id \in IdArgs :
        /\ LET r == CancelAppointment(store, appointment_id)
           IN  /\ store' = r.store
               /\ last' = [op |-> "cancel_appointment", id |-> appointment_id,
                           result |-> r.result]
        /\ UNCHANGED <<calls, now, nextId, sessions, turns>>

Tick ==
    /\ \E t \in NowTimes : t > now /\ now' = t
    /\ last' = [op |-> "tick"]
    /\ UNCHANGED <<calls, store, nextId, sessions, turns>>

CalNext == CalCheck \/ CalCreate \/ CalUpdate \/ CalCancel \/ Tick

SpecCal == Init /\ [][CalNext]_vars

(***************************************************************************)
(* The dialogue: turns of process_message, clear_session, and time.        *)
(* The appointments file outlives the server, so a run may start with an   *)
(* appointment booked earlier.  The LLM is a black box: extract_entities   *)
(* may return any of Extractions, or fail (and then yields the empty       *)
(* dict); generate_response may fail (and then yields the apology).        *)
(***************************************************************************)
SessionIds == { "s1" }
Extractions ==
    { EmptyDict,
      [patient_phone |-> "0555123456"],
      [patient_name |-> "Ahmed Benali", patient_phone |-> "0555123456",
       date |-> "today", time |-> "10"],
      [time |-> "9:30"],
      [date |-> "date"] }
Faults == { "none", "extract", "generate" }
BookedEarlier ==
    NewAppointment(1, "Ahmed Benali", "0555123456", At(4, 9, 0), AppointmentDuration, "General consultation", "Any available doctor", At(3, 10, 0))
InitialStores == { <<>>, <<BookedEarlier>> }

DialogueInit ==
    /\ store \in InitialStores
    /\ now = At(4, 8, 0)
    /\ nextId = Len(store)
    /\ sessions = NoSessions
    /\ calls = NoCalls
    /\ turns = 0
    /\ last = [op |-> "init"]

SessionOf(session_id) ==
    IF session_id \in DOMAIN sessions THEN sessions[session_id] ELSE NewSession

\* the failures a turn can meet: only of a collaborator it calls
FaultsOf(r, ext) ==
    {"none"} \cup (IF r.extraction /\ ext = EmptyDict THEN {"extract"} ELSE {})
             \cup (IF r.generation THEN {"generate"} ELSE {})

\* one call of process_message, its message and extraction drawn from the
\* given sets
ProcessOf(session_ids, messages, extractions, max_turns) ==
    \E session_id \in session_ids, message \in messages :
        /\ turns < max_turns
        /\ \E before \in { SessionOf(session_id) } :
           \E r0 \in { Turn(before, store, nextId + 1, now, turns + 1, message, EmptyDict) } :
           \E ext \in IF r0.extraction THEN extractions ELSE { EmptyDict } :
           \E r \in { IF ext = EmptyDict THEN r0
                      ELSE Turn(before, store, nextId + 1, now, turns + 1, message, ext) } :
           \E fault \in FaultsOf(r, ext) :
               /\ sessions' = IF r.deleted
                              THEN [s \in DOMAIN sessions \ {session_id} |-> sessions[s]]
                              ELSE [s \in DOMAIN sessions \cup {session_id} |->
                                       IF s = session_id THEN r.session ELSE sessions[s]]
               /\ store' = r.store
               /\ nextId' = IF r.created THEN nextId + 1 ELSE nextId
               /\ last' = [op |-> "process_message", session_id |-> session_id,
                           message |-> message, fault |-> fault,
                           path |-> r.path, intent |-> r.intent,
                           executed |-> r.executed, action_result |-> r.action_result,
                           detected |-> r.detected, extraction |-> r.extraction,
                           extracted |-> ext,
                           deleted |-> r.deleted, before |-> before]
        /\ turns' = turns + 1
        /\ UNCHANGED <<calls, now>>

Process(messages, extractions, max_turns) ==
    ProcessOf(SessionIds, messages, extractions, max_turns)

ProcessMessage == Process(Messages, Extractions, MaxTurns)

ClearSessionKeepsIt ==
    \E session_id \in SessionIds :
        /\ sessions' = sessions
        /\ last' = [op |-> "clear_session", session_id |-> session_id]
        /\ UNCHANGED <<calls, store, now, nextId, turns>>

ClearEverySession(session_ids) ==
    \E session_id \in session_ids :
        /\ sessions' = NoSessions
        /\ last' = [op |-> "clear_session", session_id |-> session_id]
        /\ UNCHANGED <<calls, store, now, nextId, turns>>

\* lines 465-468: called for an id with or without a session
ClearSessionOf(session_ids) ==
    \E session_id \in session_ids :
        /\ sessions' = [s \in DOMAIN sessions \ {session_id} |-> sessions[s]]
        /\ last' = [op |-> "clear_session", session_id |-> session_id]
        /\ UNCHANGED <<calls, store, now, nextId, turns>>

ClearSession == ClearSessionOf(SessionIds)

DialogueNext == ProcessMessage \/ ClearSession \/ Tick

Spec == DialogueInit /\ [][DialogueNext]_vars

(***************************************************************************)
(* A long conversation: more turns, over a small vocabulary, about an      *)
(* appointment booked earlier.                                             *)
(***************************************************************************)
LongMessages == { "delete it", "list them", "no", "yes" }
LongExtractions == { EmptyDict, [patient_phone |-> "0555123456"] }

LongInit ==
    /\ store = <<BookedEarlier>>
    /\ now = At(4, 8, 0)
    /\ nextId = 1
    /\ sessions = NoSessions
    /\ calls = NoCalls
    /\ turns = 0
    /\ last = [op |-> "init"]

LongTurn == Process(LongMessages, LongExtractions, MaxLongTurns)

LongNext == LongTurn \/ ClearSession

SpecLong == LongInit /\ [][LongNext]_vars

(***************************************************************************)
(* A conversation of a patient who has a visit behind them and one ahead.  *)
(***************************************************************************)
VisitBehind ==
    NewAppointment(1, "Ahmed Benali", "0555123456", At(3, 9, 0), AppointmentDuration, "General consultation", "Any available doctor", At(2, 10, 0))
VisitAhead ==
    NewAppointment(2, "Ahmed Benali", "0555123456", At(4, 9, 0), AppointmentDuration, "General consultation", "Any available doctor", At(3, 10, 0))

VisitsInit ==
    /\ store = <<VisitBehind, VisitAhead>>
    /\ now = At(4, 8, 0)
    /\ nextId = 2
    /\ sessions = NoSessions
    /\ calls = NoCalls
    /\ turns = 0
    /\ last = [op |-> "init"]

VisitsNext == LongTurn \/ ClearSession

SpecVisits == VisitsInit /\ [][VisitsNext]_vars

(***************************************************************************)
(* Two sessions, of the same patient, whose turns interleave.              *)
(***************************************************************************)
TwoSessionIds == { "s1", "s2" }
TwoMessages == { "delete it", "yes", "bye" }

TwoTurn == ProcessOf(TwoSessionIds, TwoMessages, LongExtractions, MaxLongTurns)

TwoClear == ClearSessionOf(TwoSessionIds)

TwoNext == TwoTurn \/ TwoClear

SpecTwo == LongInit /\ [][TwoNext]_vars

(***************************************************************************)
(* parse_datetime alone, called with date and time texts on each day of    *)
(* two weeks, early and late in the day.                                   *)
(***************************************************************************)
ParseClockDays == 0..13
ParseClocks == { At(d, hm[1], hm[2]) : d \in ParseClockDays, hm \in {<<8, 0>>, <<23, 30>>} }
ParseDateArgs == DOMAIN DayNames \cup { "today", "tomorrow", "someday" }
ParseTimeArgs == { "9", "14:30", "soon" }

ParseInit ==
    /\ store = <<>>
    /\ now \in ParseClocks
    /\ nextId = 0
    /\ sessions = NoSessions
    /\ calls = NoCalls
    /\ turns = 0
    /\ last = [op |-> "init"]

ParseCall ==
    \E date_str \in ParseDateArgs, time_str \in ParseTimeArgs :
        /\ last' = [op |-> "parse_datetime", date_str |-> date_str,
                    time_str |-> time_str, clock |-> now,
                    result |-> ParseDatetime(date_str, time_str, now)]
        /\ UNCHANGED <<calls, store, now, nextId, sessions, turns>>

\* the clock reaches the next day
ParseTick ==
    /\ now + 1440 \in ParseClocks
    /\ now' = now + 1440
    /\ last' = [op |-> "tick"]
    /\ UNCHANGED <<calls, store, nextId, sessions, turns>>

ParseNext == ParseCall \/ ParseTick

SpecParse == ParseInit /\ [][ParseNext]_vars

(***************************************************************************)
(* A conversation about changing the appointment booked earlier: the       *)
(* extraction brings a new date, the placeholder 'date' over it, or an     *)
(* empty phone number over the one given.                                  *)
(***************************************************************************)
EditMessages == { "change the time", "0555123456", "annuler", "yes" }
EditExtractions ==
    { EmptyDict, [patient_phone |-> "0555123456"], [date |-> "tomorrow"],
      [date |-> "date"], [patient_phone |-> ""] }

EditTurn == Process(EditMessages, EditExtractions, MaxLongTurns)

EditNext == EditTurn \/ ClearSession

SpecEdit == LongInit /\ [][EditNext]_vars

(***************************************************************************)
(* The appointment service by phone: one call of book_appointment,         *)
(* view_appointments, cancel_appointment_by_phone,                         *)
(* update_appointment_by_phone or of the server's _handle_edit each, and   *)
(* passing time.                                                           *)
(***************************************************************************)
SvcPhones == { "0555123456", "0666000000" }
UnusedPhone == "0777000000"
SvcDates == { "today", "saturday" }
SvcTimes == { "9", "10" }
\* <<new_date, new_time, new_doctor, new_reason>>; the doctor and reason are
\* those book_appointment gave the appointment
SvcUpdateArgs ==
    { <<"today", "10", NoneVal, NoneVal>>, <<"saturday", "9", NoneVal, NoneVal>>,
      <<"someday", "10", NoneVal, NoneVal>>, <<NoneVal, "10", NoneVal, NoneVal>>,
      <<NoneVal, NoneVal, "Any available doctor", NoneVal>>,
      <<NoneVal, NoneVal, NoneVal, "General consultation">>,
      <<NoneVal, NoneVal, NoneVal, NoneVal>> }
\* the changes _handle_edit finds among the entities
SvcEditArgs ==
    { [time |-> "10"], [time |-> "9"], [date |-> "saturday"], [date |-> "today"],
      [date |-> "saturday", time |-> "10"], [doctor_name |-> "Any available doctor"] }

SvcBook ==
    \E phone \in SvcPhones, date \in SvcDates, time \in SvcTimes :
        /\ nextId < MaxIds
        /\ \E r \in { BookAppointment(store, nextId + 1, "Ahmed Benali", phone, date, time,
                                      NoneVal, NoneVal, now) } :
               /\ store' = r.store
               /\ nextId' = IF r.result.success THEN nextId + 1 ELSE nextId
               /\ last' = [op |-> "book_appointment", phone |-> phone, date |-> date,
                           time |-> time, result |-> r.result]
        /\ UNCHANGED <<calls, now, sessions, turns>>

SvcView ==
    \E phone \in SvcPhones \cup { UnusedPhone } :
        /\ last' = [op |-> "view_appointments", phone |-> phone,
                    result |-> ViewAppointments(store, phone)]
        /\ UNCHANGED <<calls, store, now, nextId, sessions, turns>>

SvcCancel ==
    \E phone \in SvcPhones \cup { UnusedPhone } :
        /\ \E r \in { CancelAppointmentByPhone(store, phone, now) } :
               /\ store' = r.store
               /\ last' = [op |-> "cancel_appointment_by_phone", phone |-> phone,
                           result |-> r.result]
        /\ UNCHANGED <<calls, now, nextId, sessions, turns>>

SvcUpdate ==
    \E phone \in SvcPhones, args \in SvcUpdateArgs :
        /\ \E r \in { UpdateAppointmentByPhone(store, phone, args[1], args[2], args[3],
                                               args[4], now) } :
               /\ store' = r.store
               /\ last' = [op |-> "update_appointment_by_phone", phone |-> phone,
                           args |-> args, result |-> r.result]
        /\ UNCHANGED <<calls, now, nextId, sessions, turns>>

SvcEdit ==
    \E phone \in SvcPhones, changes \in SvcEditArgs :
        /\ \E r \in { HandleEdit(DictUpdate([patient_phone |-> phone], changes), store, now) } :
               /\ store' = r.store
               /\ last' = [op |-> "_handle_edit", phone |-> phone,
                           changes |-> changes, result |-> r.result]
        /\ UNCHANGED <<calls, now, nextId, sessions, turns>>

SvcNext == SvcBook \/ SvcView \/ SvcCancel \/ SvcUpdate \/ SvcEdit \/ Tick

SpecSvc == Init /\ [][SvcNext]_vars

(***************************************************************************)
(* The free slots of a day, between bookings and cancellations.            *)
(***************************************************************************)
SlotDates == { At(4, 15, 20), At(5, 0, 0), At(6, 10, 0) }
SlotStartTimes == { At(4, 9, 0), At(4, 9, 30), At(4, 17, 30), At(5, 13, 0), At(5, 14, 0) }

SlotsCall ==
    \E date \in SlotDates, duration \in DurationArgs :
        /\ last' = [op |-> "get_available_slots", date |-> date, duration |-> duration,
                    result |-> GetAvailableSlots(store, date, duration, now)]
        /\ UNCHANGED <<calls, store, now, nextId, sessions, turns>>

SlotsCreate ==
    \E start_time \in SlotStartTimes, duration \in DurationArgs, phone \in Phones :
        /\ nextId < MaxIds
        /\ \E r \in { CreateAppointment(store, nextId + 1, "Ahmed Benali", phone,
                                        start_time, duration, "Consultation", NoneVal, now) } :
               /\ store' = r.store
               /\ nextId' = IF r.result.success THEN nextId + 1 ELSE nextId
               /\ last' = [op |-> "create_appointment", start_time |-> start_time,
                           duration |-> duration, patient_phone |-> phone,
                           result |-> r.result]
        /\ UNCHANGED <<calls, now, sessions, turns>>

SlotsNext == SlotsCall \/ SlotsCreate \/ CalCancel \/ Tick

SpecSlots == Init /\ [][SlotsNext]_vars

(***************************************************************************)
(* Two callers of create_appointment at once.  A call reads the file in    *)
(* check_availability, builds its record, reads the file again and writes  *)
(* it back with the record appended; the file is read or written in one    *)
(* step, and nothing orders the steps of the two calls.                    *)
(***************************************************************************)
Callers == { 1, 2 }
RaceStartTimes == { At(4, 9, 0), At(4, 9, 30), At(4, 10, 0) }
NoResult == [none |-> TRUE]
NoAppointment == [none |-> TRUE]
Idle ==
    [pc |-> "idle", start_time |-> 0, duration |-> NoDuration,
     appointment |-> NoAppointment, appointments |-> <<>>, result |-> NoResult]

RaceInit ==
    /\ store = <<>>
    /\ now = At(4, 8, 0)
    /\ nextId = 0
    /\ sessions = NoSessions
    /\ turns = 0
    /\ calls = [p \in Callers |-> Idle]
    /\ last = [op |-> "init"]

\* create_appointment is called
RaceCall ==
    \E p \in Callers, start_time \in RaceStartTimes, duration \in DurationArgs :
        /\ calls[p].pc \in {"idle", "done"}
        /\ nextId < MaxIds
        /\ calls' = [calls EXCEPT ![p] = [Idle EXCEPT !.pc = "check",
                                                       !.start_time = start_time,
                                                       !.duration = duration]]
        /\ last' = [op |-> "create_appointment", caller |-> p, step |-> "call"]
        /\ UNCHANGED <<store, now, nextId, sessions, turns>>

\* lines 270-298: the availability check on the file as it is now, then the
\* record with its fresh id
RaceCheck ==
    \E p \in Callers :
        /\ calls[p].pc = "check"
        /\ \E c \in { calls[p] } :
           \E r \in { CreateAppointment(store, nextId + 1, "Ahmed Benali", "0555123456",
                                        c.start_time, c.duration, "Consultation",
                                        NoneVal, now) } :
               /\ calls' = [calls EXCEPT ![p] =
                              IF r.result.success
                              THEN [c EXCEPT !.pc = "load",
                                             !.appointment = r.result.appointment]
                              ELSE [c EXCEPT !.pc = "done", !.result = r.result]]
               /\ nextId' = IF r.result.success THEN nextId + 1 ELSE nextId
        /\ last' = [op |-> "create_appointment", caller |-> p, step |-> "check"]
        /\ UNCHANGED <<store, now, sessions, turns>>

\* line 301: appointments = load_appointments()
RaceLoad ==
    \E p \in Callers :
        /\ calls[p].pc = "load"
        /\ calls' = [calls EXCEPT ![p].pc = "save", ![p].appointments = store]
        /\ last' = [op |-> "create_appointment", caller |-> p, step |-> "load"]
        /\ UNCHANGED <<store, now, nextId, sessions, turns>>

RaceSaveReloading ==
    \E p \in Callers :
        /\ calls[p].pc = "save"
        /\ store' = Append(store, calls[p].appointment)
        /\ calls' = [calls EXCEPT ![p].pc = "done",
                                  ![p].result = [success |-> TRUE,
                                                 message |-> "Appointment booked successfully",
                                                 appointment_id |-> calls[p].appointment.id,
                                                 appointment |-> calls[p].appointment]]
        /\ last' = [op |-> "create_appointment", caller |-> p, step |-> "save"]
        /\ UNCHANGED <<now, nextId, sessions, turns>>

\* lines 302-311: append to the list that was loaded, save it, report success
RaceSave ==
    \E p \in Callers :
        /\ calls[p].pc = "save"
        /\ store' = Append(calls[p].appointments, calls[p].appointment)
        /\ calls' = [calls EXCEPT ![p].pc = "done",
                                  ![p].result = [success |-> TRUE,
                                                 message |-> "Appointment booked successfully",
                                                 appointment_id |-> calls[p].appointment.id,
                                                 appointment |-> calls[p].appointment]]
        /\ last' = [op |-> "create_appointment", caller |-> p, step |-> "save"]
        /\ UNCHANGED <<now, nextId, sessions, turns>>

RaceNext == RaceCall \/ RaceCheck \/ RaceLoad \/ RaceSave

SpecRace == RaceInit /\ [][RaceNext]_vars

(***************************************************************************)
(* IntentDetector.detect on its own: a message and a session context are   *)
(* chosen, then the detector is applied to them.                           *)
(***************************************************************************)
DetectStages == {NoneVal} \cup ActiveEditStages

DetectInit ==
    /\ store = <<>>
    /\ now = At(4, 8, 0)
    /\ nextId = 0
    /\ sessions = NoSessions
    /\ calls = NoCalls
    /\ turns = 0
    /\ \E message \in AllMessages, edit_stage \in DetectStages :
        last = [op |-> "input", message |-> message, edit_stage |-> edit_stage]

DetectCall ==
    /\ last.op = "input"
    /\ last' = [op |-> "detect", message |-> last.message,
                edit_stage |-> last.edit_stage,
                result |-> Detect(last.message, last.edit_stage)]
    /\ UNCHANGED <<calls, store, now, nextId, sessions, turns>>

DetectInput ==
    /\ last.op = "detect"
    /\ \E message \in AllMessages, edit_stage \in DetectStages :
        last' = [op |-> "input", message |-> message, edit_stage |-> edit_stage]
    /\ UNCHANGED <<calls, store, now, nextId, sessions, turns>>

DetectNext == DetectCall \/ DetectInput

SpecDetect == DetectInit /\ [][DetectNext]_vars

(***************************************************************************)
(* What the specification says of the calendar, stated on its own terms:   *)
(* intervals are half-open, [start, end).                                  *)
(***************************************************************************)
StartOf(apt) == FromIsoFormat(apt.start_time)
EndOf(apt) == FromIsoFormat(apt.end_time)
Disjoint(s1, e1, s2, e2) == e1 <= s2 \/ e2 <= s1
Others(appointments, exclude) ==
    {i \in 1..Len(appointments) : exclude = NoId \/ appointments[i].id # exclude}
SlotFree(appointments, start, duration, exclude) ==
    \A i \in Others(appointments, exclude) :
        Disjoint(start, start + duration, StartOf(appointments[i]), EndOf(appointments[i]))
DayOpen(start) == WorkingHours(WeekdayOf(start)) # NoHours
InOpeningHours(start) ==
    /\ DayOpen(start)
    /\ WorkingHours(WeekdayOf(start))[1] <= HourOf(start)
    /\ HourOf(start) < WorkingHours(WeekdayOf(start))[2]
NotPast(start, clock) == start >= clock
ExpectedAvailable(appointments, start, duration, exclude, clock) ==
    /\ SlotFree(appointments, start, duration, exclude)
    /\ DayOpen(start)
    /\ InOpeningHours(start)
    /\ NotPast(start, clock)
ExpectedReason(appointments, start, duration, exclude, clock) ==
    IF ~SlotFree(appointments, start, duration, exclude) THEN "conflict"
    ELSE IF ~DayOpen(start) THEN "closed"
    ELSE IF ~InOpeningHours(start) THEN "outside_hours"
    ELSE "past"
Ids(appointments) == {appointments[i].id : i \in 1..Len(appointments)}
WithId(appointments, id) == {i \in 1..Len(appointments) : appointments[i].id = id}

\* C1: starting from an empty store, after any sequence of create_appointment,
\* update_appointment and cancel_appointment calls, no two distinct stored
\* appointments overlap: A.end <= B.start or B.end <= A.start.
C1_NoDoubleBooking ==
    \A i, j \in 1..Len(store) :
        i # j => Disjoint(StartOf(store[i]), EndOf(store[i]),
                          StartOf(store[j]), EndOf(store[j]))

\* Two appointments are stored and the last call rescheduled one of them.
C1_Witness ==
    /\ Len(store) = 2
    /\ last.op = "update_appointment"
    /\ last.result.success
    /\ "start_time" \in DOMAIN last.updates
    /\ last.before # {IsoFormat(last.updates.start_time)}

\* C8: update_appointment(X, {start_time: t}) succeeds whenever [t, t + duration)
\* overlaps no stored appointment other than X itself, t is on an open weekday
\* inside opening hours and not before now; afterwards X has start_time t and
\* end_time t + duration.
C8_UpdateSelfExclusion ==
    [][ (/\ last'.op = "update_appointment"
         /\ DOMAIN last'.updates = {"start_time"}
         /\ WithId(store, last'.id) # {})
        => LET X == last'.id
               t == last'.updates.start_time
               old == store[Min(WithId(store, X))]
           IN  (/\ SlotFree(store, t, old.duration, X)
                /\ InOpeningHours(t)
                /\ NotPast(t, now))
               => /\ last'.result.success
                  /\ WithId(store', X) # {}
                  /\ \A i \in WithId(store', X) :
                        /\ StartOf(store'[i]) = t
                        /\ EndOf(store'[i]) = t + old.duration ]_vars

\* An update moved an appointment to a slot that overlaps its own previous slot
\* while another appointment is stored.
C8_Witness ==
    /\ last.op = "update_appointment"
    /\ DOMAIN last.updates = {"start_time"}
    /\ last.result.success
    /\ Len(store) = 2
    /\ \E b \in last.before :
          /\ FromIsoFormat(b) # last.updates.start_time
          /\ ~Disjoint(FromIsoFormat(b), FromIsoFormat(b) + last.result.appointment.duration,
                       StartOf(last.result.appointment), EndOf(last.result.appointment))

\* C9: check_availability(start, duration, exclude_id) returns available = true
\* if and only if no stored appointment other than the excluded one overlaps
\* [start, start + duration), the weekday is open, the start hour is inside the
\* day's [open, close) window and start is not before now; when it returns
\* false the reason is the first failing condition in the order conflict,
\* closed, outside_hours, past.
C9_CheckAvailability ==
    last.op = "check_availability" =>
        LET d == IF last.duration = NoDuration THEN AppointmentDuration ELSE last.duration
        IN  /\ last.result.available
                = ExpectedAvailable(store, last.start_time, d, last.exclude, now)
            /\ ~last.result.available
                => last.result.reason
                    = ExpectedReason(store, last.start_time, d, last.exclude, now)

\* A check that excluded appointment 1 found a slot overlapping it available.
C9_Witness ==
    /\ last.op = "check_availability"
    /\ last.exclude = 1
    /\ last.result.available
    /\ \E i \in WithId(store, 1) :
          ~Disjoint(last.start_time, last.start_time + DefaultDuration(last.duration),
                    StartOf(store[i]), EndOf(store[i]))

\* C10: create_appointment returns success exactly when check_availability is
\* available against the store as it is at the time of the call; on success the
\* store gains exactly one record, with a new id, status confirmed and
\* end_time = start_time + duration, and every previously stored record is
\* unchanged.
C10_CreateAppointment ==
    [][ last'.op = "create_appointment"
        => LET d == IF last'.duration = NoDuration THEN AppointmentDuration ELSE last'.duration
           IN  /\ last'.result.success
                    = ExpectedAvailable(store, last'.start_time, d, NoId, now)
               /\ last'.result.success
                    => /\ Len(store') = Len(store) + 1
                       /\ SubSeq(store', 1, Len(store)) = store
                       /\ store'[Len(store')].id \notin Ids(store)
                       /\ store'[Len(store')].status = "confirmed"
                       /\ StartOf(store'[Len(store')]) = last'.start_time
                       /\ EndOf(store'[Len(store')]) = last'.start_time + d ]_vars

\* A second appointment was created next to a stored one.
C10_Witness ==
    /\ last.op = "create_appointment"
    /\ last.result.success
    /\ Len(store) = 2

(***************************************************************************)
(* What the specification says of the dialogue                             *)
(***************************************************************************)
Affirmative(message) == KeywordsIn(message) \cap ConfirmWords # {}
Negative(message) == KeywordsIn(message) \cap CancelWords # {}
IsTurn == last.op = "process_message"
\* the session of the last turn, as the turn left it
Kept == IsTurn /\ last.session_id \in DOMAIN sessions
After == sessions[last.session_id]
IsSet(v) == v # NoneVal

\* C2: the store changes only in a turn that began with awaiting_confirmation
\* set to an action and an affirmative message, and then by that action (a
\* booking adds a record, a cancellation removes one, an edit keeps the
\* number); every other step, every view included, leaves the store as it was.
C2_StoreMutatedOnlyWhenConfirmed ==
    [][ store' # store =>
          /\ last'.op = "process_message"
          /\ Affirmative(last'.message)
          /\ last'.executed = last'.before.awaiting_confirmation
          /\ \/ last'.executed = "book" /\ Len(store') = Len(store) + 1
             \/ last'.executed = "cancel" /\ Len(store') = Len(store) - 1
             \/ last'.executed = "edit" /\ Len(store') = Len(store) ]_vars

C2_Witness ==
    /\ IsTurn
    /\ last.executed = "book"
    /\ Succeeded(last.action_result)
    /\ Len(store) = 2

C4_NeverBothSet ==
    \A s \in DOMAIN sessions :
        ~(IsSet(sessions[s].awaiting_confirmation) /\ IsSet(sessions[s].edit_stage))

\* C4, as the program has it: awaiting_confirmation and edit_stage are both
\* set only as the pair ('edit', 'awaiting_final_confirmation');
\* awaiting_confirmation is never set while edit_stage is
\* 'shown_appointment' or 'collecting_changes'.
C4_BothSetOnlyForFinalEditConfirmation ==
    \A s \in DOMAIN sessions :
        (IsSet(sessions[s].awaiting_confirmation) /\ IsSet(sessions[s].edit_stage)) =>
            /\ sessions[s].awaiting_confirmation = "edit"
            /\ sessions[s].edit_stage = "awaiting_final_confirmation"

C4_Witness ==
    /\ Kept
    /\ last.path = "edit_collect"
    /\ After.awaiting_confirmation = "edit"
    /\ After.edit_stage = "awaiting_final_confirmation"

\* C5: no session's history is ever longer than 10 entries.
C5_HistoryAtMostTen ==
    \A s \in DOMAIN sessions : Len(sessions[s].history) <= 10

\* C6: after a turn that executed book, edit, cancel or view with success,
\* the session's entities are empty and its edit_stage is unset.
C6_SuccessClearsEntities ==
    ( /\ Kept
      /\ last.executed \in {"book", "edit", "cancel", "view"}
      /\ Succeeded(last.action_result) ) =>
        /\ After.entities = EmptyDict
        /\ After.edit_stage = NoneVal

\* C7: a turn in which extraction or response generation failed leaves the
\* session's entities, pending_action, awaiting_confirmation, edit_stage and
\* history as they were before the turn.
C7_FailureKeepsSession ==
    (Kept /\ last.fault # "none") =>
        /\ After.entities = last.before.entities
        /\ After.pending_action = last.before.pending_action
        /\ After.awaiting_confirmation = last.before.awaiting_confirmation
        /\ After.edit_stage = last.before.edit_stage
        /\ After.history = last.before.history

\* C11: a call of create_appointment, update_appointment or
\* cancel_appointment that returns success = false (conflict, closed,
\* outside hours, past, unknown id) leaves the stored appointments exactly
\* as they were.
C11_FailureKeepsStore ==
    [][ ( /\ last'.op \in {"create_appointment", "update_appointment",
                           "cancel_appointment"}
          /\ ~last'.result.success ) => store' = store ]_vars

C11_Witness ==
    /\ last.op = "update_appointment"
    /\ ~last.result.success
    /\ Get(last.result, "reason", NoneVal) = "conflict"
    /\ Len(store) = 2

\* C12: a successful update_appointment(id, updates) leaves every other
\* record as it was, and on the record with that id changes start_time and
\* end_time only when updates has start_time (to t and t + duration),
\* doctor_name only when updates has doctor_name, reason only when updates
\* has reason; id, patient_name, patient_phone, duration, status and
\* created_at stay.
C12_UpdateChangesOnlySupplied ==
    [][ (last'.op = "update_appointment" /\ last'.result.success) =>
        /\ Len(store') = Len(store)
        /\ \A i \in 1..Len(store) :
            LET old == store[i]
                new == store'[i]
                u == last'.updates
            IN  IF old.id # last'.id THEN new = old
                ELSE /\ new.id = old.id
                     /\ new.patient_name = old.patient_name
                     /\ new.patient_phone = old.patient_phone
                     /\ new.duration = old.duration
                     /\ new.status = old.status
                     /\ new.created_at = old.created_at
                     /\ DOMAIN new = DOMAIN old
                     /\ new.start_time = IF "start_time" \in DOMAIN u
                                         THEN IsoFormat(u.start_time) ELSE old.start_time
                     /\ new.end_time = IF "start_time" \in DOMAIN u
                                       THEN IsoFormat(u.start_time + old.duration)
                                       ELSE old.end_time
                     /\ new.doctor_name = IF "doctor_name" \in DOMAIN u
                                          THEN u.doctor_name ELSE old.doctor_name
                     /\ new.reason = IF "reason" \in DOMAIN u
                                     THEN u.reason ELSE old.reason ]_vars

C12_Witness ==
    /\ last.op = "update_appointment"
    /\ last.result.success
    /\ "start_time" \in DOMAIN last.updates
    /\ Len(store) = 2
    /\ \E i \in 1..2 : store[i].id = last.id /\ store[i].reason = "Consultation"

(***************************************************************************)
(* What the specification says of the service by phone                     *)
(***************************************************************************)
MineIdx(appointments, phone) ==
    {i \in 1..Len(appointments) : appointments[i].patient_phone = phone}
UpcomingIdx(appointments, phone, clock) ==
    {i \in MineIdx(appointments, phone) : StartOf(appointments[i]) > clock}
\* the phone's appointment with the earliest start strictly after the clock
EarliestUpcoming(appointments, phone, clock) ==
    appointments[CHOOSE i \in UpcomingIdx(appointments, phone, clock) :
                    \A j \in UpcomingIdx(appointments, phone, clock) :
                        StartOf(appointments[i]) <= StartOf(appointments[j])]
Without(appointments, id) == SelectSeq(appointments, LAMBDA apt : apt.id # id)

\* C13: view_appointments(phone) returns success with exactly the stored
\* appointments of that phone, each once, in ascending start order, and
\* leaves the store as it was; a phone with no appointment gets the empty
\* list, a phone with one gets that one.
C13_ViewAppointments ==
    [][ last'.op = "view_appointments" =>
        LET got == last'.result.appointments
            mine == MineIdx(store, last'.phone)
        IN  /\ store' = store
            /\ last'.result.success
            /\ Len(got) = Cardinality(mine)
            /\ {got[i] : i \in 1..Len(got)} = {store[i] : i \in mine}
            /\ \A i, j \in 1..Len(got) : i < j => StartOf(got[i]) <= StartOf(got[j]) ]_vars

C13_Witness ==
    /\ last.op = "view_appointments"
    /\ Len(store) = 2
    /\ Len(last.result.appointments) = 2
    /\ last.result.appointments[1] = store[2]
    /\ last.result.appointments[2] = store[1]

\* C14: cancel_appointment_by_phone(phone) removes exactly the phone's
\* appointment with the earliest start strictly after now and keeps every
\* other appointment; when the phone has no appointment after now it
\* returns failure and the store is as it was.
C14_CancelEarliestUpcoming ==
    [][ last'.op = "cancel_appointment_by_phone" =>
        IF UpcomingIdx(store, last'.phone, now) = {}
        THEN ~last'.result.success /\ store' = store
        ELSE /\ last'.result.success
             /\ store' = Without(store, EarliestUpcoming(store, last'.phone, now).id)
             /\ Len(store') = Len(store) - 1 ]_vars

C14_Witness ==
    /\ last.op = "cancel_appointment_by_phone"
    /\ last.result.success
    /\ Len(store) = 1
    /\ store[1].patient_phone = last.phone
    /\ StartOf(store[1]) < now

\* C15: an edit that supplies only a time (only a date) asks for the slot
\* made of the date (the time of day) of the phone's earliest upcoming
\* appointment and the supplied time (date); when that slot is available
\* the edit succeeds and that appointment then starts there.
C15_PartialEditKeepsOtherAxis ==
    [][ ( /\ last'.op = "_handle_edit"
          /\ DOMAIN last'.changes \in {{"time"}, {"date"}}
          /\ UpcomingIdx(store, last'.phone, now) # {} ) =>
        LET target == EarliestUpcoming(store, last'.phone, now)
            old == StartOf(target)
            wanted == IF DOMAIN last'.changes = {"time"}
                      THEN At(DayOf(old), ParseTime(last'.changes.time)[1],
                              ParseTime(last'.changes.time)[2])
                      ELSE At(ParseDate(last'.changes.date, now), HourOf(old), MinuteOf(old))
        IN  ExpectedAvailable(store, wanted, target.duration, target.id, now) =>
                /\ last'.result.success
                /\ \A i \in WithId(store', target.id) : StartOf(store'[i]) = wanted ]_vars

\* C16: a call of update_appointment_by_phone that leaves the appointment's
\* start time, doctor and reason as they were returns failure.
C16_NoChangeRejected ==
    [][ (last'.op = "update_appointment_by_phone" /\ store' = store) =>
            ~last'.result.success ]_vars

(***************************************************************************)
(* What the specification says of intent detection                         *)
(***************************************************************************)
\* a keyword occurs in a message whatever the case of the message's letters
Said(word, message) == Occurs(word, Strip(Lower(message)))
TableOrder == <<"greet", "book", "edit", "cancel", "view", "goodbye", "help">>
\* the intents of the table one of whose keywords occurs in the message
Matching(message) ==
    {i \in 1..Len(TableOrder) : \E word \in IntentKeywords[TableOrder[i]] : Said(word, message)}
FirstMatching(message) ==
    IF Matching(message) = {} THEN "unclear" ELSE TableOrder[Min(Matching(message))]
SaysExit(message) ==
    \E word \in {"cancel", "bye", "goodbye", "stop", "quit", "exit", "annuler"} :
        Said(word, message)
InEditFlow(edit_stage) ==
    edit_stage \in {"shown_appointment", "collecting_changes", "awaiting_final_confirmation"}

\* C17: with edit_stage an active edit sub-state, detect returns edit for
\* every message that contains no exit keyword, whatever intent keywords it
\* contains, and returns the result of normal keyword matching for a
\* message that contains an exit keyword.
C17_EditStageOverride ==
    (last.op = "detect" /\ InEditFlow(last.edit_stage)) =>
        IF SaysExit(last.message)
        THEN last.result = FirstMatching(last.message)
        ELSE last.result = "edit"

C17_Witness ==
    /\ last.op = "detect"
    /\ last.edit_stage = "collecting_changes"
    /\ ~SaysExit(last.message)
    /\ FirstMatching(last.message) = "book"
    /\ last.result = "edit"

\* C18: outside an active edit stage detect returns the first intent, in
\* the order greet, book, edit, cancel, view, goodbye, help, one of whose
\* keywords occurs in the message, and unclear when no keyword occurs.
C18_FirstIntentInTableOrder ==
    (last.op = "detect" /\ ~InEditFlow(last.edit_stage)) =>
        last.result = FirstMatching(last.message)

C18_Witness ==
    /\ last.op = "detect"
    /\ ~InEditFlow(last.edit_stage)
    /\ Cardinality(Matching(last.message)) >= 2
    /\ last.result = "book"
    /\ 4 \in Matching(last.message)

(***************************************************************************)
(* What the specification says of the life of a session                    *)
(***************************************************************************)
\* C19: after a message for an id its session is in the map exactly when
\* the turn's intent was not goodbye; clear_session removes the id's
\* session and changes nothing else, nothing at all when the id has no
\* session; nothing else adds or removes a session; a message for an id
\* without a session starts from empty history and entities and unset
\* pending_action, awaiting_confirmation and edit_stage, and a message for
\* an id with a session starts from that session.
C19_SessionLifecycle ==
    [][ /\ last'.op = "process_message" =>
            /\ (last'.session_id \in DOMAIN sessions') <=> (last'.intent # "goodbye")
            /\ IF last'.session_id \in DOMAIN sessions
               THEN last'.before = sessions[last'.session_id]
               ELSE /\ last'.before.history = <<>>
                    /\ DOMAIN last'.before.entities = {}
                    /\ last'.before.pending_action = NoneVal
                    /\ last'.before.awaiting_confirmation = NoneVal
                    /\ last'.before.edit_stage = NoneVal
        /\ last'.op = "clear_session" =>
            /\ last'.session_id \notin DOMAIN sessions'
            /\ \A s \in DOMAIN sessions \ {last'.session_id} :
                    s \in DOMAIN sessions' /\ sessions'[s] = sessions[s]
            /\ last'.session_id \notin DOMAIN sessions => sessions' = sessions
            /\ store' = store
        /\ last'.op \notin {"process_message", "clear_session"} => sessions' = sessions
      ]_vars

\* a third message that starts from a fresh session: the session the first
\* message made was destroyed in between
C19_Witness ==
    /\ last.op = "process_message"
    /\ turns = 3
    /\ last.before.last_intent = NoneVal
    /\ last.before.history = <<>>
    /\ last.session_id \in DOMAIN sessions

(***************************************************************************)
(* What the specification says of the order of the steps of a turn         *)
(***************************************************************************)
\* C20: a turn that starts with awaiting_confirmation set, or with
\* edit_stage shown_appointment or collecting_changes, does not run intent
\* detection: the session it leaves has the last_intent it started with,
\* and its pending_action is not set to a newly detected intent.
C20_PendingPreemptsDetection ==
    [][ ( /\ last'.op = "process_message"
          /\ \/ IsSet(last'.before.awaiting_confirmation)
             \/ last'.before.edit_stage \in {"shown_appointment", "collecting_changes"} ) =>
        /\ ~last'.detected
        /\ last'.session_id \in DOMAIN sessions' =>
            /\ sessions'[last'.session_id].last_intent = last'.before.last_intent
            /\ sessions'[last'.session_id].pending_action
                    \in {last'.before.pending_action, NoneVal} ]_vars

(***************************************************************************)
(* What the specification says of the free slots                           *)
(***************************************************************************)
Range(seq) == {seq[i] : i \in 1..Len(seq)}
\* the instants of the day of date from its opening hour up to, not
\* including, its closing hour, in steps of the duration
Grid(date, duration) ==
    LET hours == WorkingHours(WeekdayOf(date))
        open == At(DayOf(date), hours[1], 0)
        close == At(DayOf(date), hours[2], 0)
    IN  {open + k * duration : k \in 0..((close - open - 1) \div duration)}
\* those at which check_availability answers available
FreeGrid(appointments, date, duration, clock) ==
    {t \in Grid(date, duration) :
        CheckAvailability(appointments, t, duration, NoId, clock).available}

\* C21: get_available_slots(date) returns, in order of time and each once,
\* exactly the slots of the day's grid at which check_availability answers
\* available at that moment, and the empty list on a closed day; once
\* create_appointment has succeeded at a slot, a call for the same date does
\* not return that slot.  (A call of get_available_slots leaves the store
\* and the clock as they were, so the state after it is the state it saw.)
C21_AvailableSlots ==
    /\ last.op = "get_available_slots" =>
        IF WorkingHours(WeekdayOf(last.date)) = NoHours
        THEN last.result = <<>>
        ELSE \E free \in { FreeGrid(store, last.date, DefaultDuration(last.duration), now) } :
                /\ Len(last.result) = Cardinality(free)
                /\ \A t \in free :
                    last.result[Cardinality({u \in free : u <= t})] = Strftime12(t)
    /\ (last.op = "create_appointment" /\ last.result.success) =>
        \A duration \in DurationArgs :
            Strftime12(last.start_time)
                \notin Range(GetAvailableSlots(store, last.start_time, duration, now))

C21_Witness ==
    /\ last.op = "get_available_slots"
    /\ Len(store) = 1
    /\ DayOf(FromIsoFormat(store[1].start_time)) = DayOf(last.date)
    /\ Len(last.result) > 0
    /\ Strftime12(FromIsoFormat(store[1].start_time)) \notin Range(last.result)
    /\ Strftime12(FromIsoFormat(store[1].end_time)) \in Range(last.result)

(***************************************************************************)
(* What the specification says of what a conflict reveals                  *)
(***************************************************************************)
\* the same appointments with every patient's name and phone replaced
Masked(appointments) ==
    [i \in 1..Len(appointments) |->
        [appointments[i] EXCEPT !.patient_name = "Someone Else",
                                !.patient_phone = "0000000000"]]
IsConflict(result) == "reason" \in DOMAIN result /\ result.reason = "conflict"
\* no text of the result holds the name or the phone of a stored appointment
NamesNobody(result, appointments) ==
    \A i \in 1..Len(appointments) :
        /\ ~Occurs(appointments[i].patient_name, result.message)
        /\ ~Occurs(appointments[i].patient_phone, result.message)
        /\ result.conflicting_time[3] \in {"AM", "PM"}

\* C22: the result of check_availability, create_appointment or
\* update_appointment for a conflicting slot has no field beyond message,
\* reason, the conflicting appointment's id and its start time, names no
\* patient, and is the result the same call gives on the store with the
\* names and phones of the stored appointments replaced by others.  (A
\* refused call leaves the store as it was: the store after it is the
\* store it saw.)
C22_ConflictRevealsNoPatient ==
    /\ (last.op = "check_availability" /\ IsConflict(last.result)) =>
        /\ DOMAIN last.result = {"available", "message", "reason",
                                 "conflicting_appointment_id", "conflicting_time"}
        /\ NamesNobody(last.result, store)
        /\ last.result = CheckAvailability(Masked(store), last.start_time,
                                           last.duration, last.exclude, now)
    /\ (last.op = "create_appointment" /\ IsConflict(last.result)) =>
        /\ DOMAIN last.result = {"success", "message", "reason", "conflicting_time"}
        /\ NamesNobody(last.result, store)
        /\ last.result = CreateAppointment(Masked(store), nextId + 1, "Ahmed Benali",
                                           last.patient_phone, last.start_time,
                                           last.duration, "Consultation", NoneVal,
                                           now).result
    /\ (last.op = "update_appointment" /\ IsConflict(last.result)) =>
        /\ DOMAIN last.result = {"success", "message", "reason", "conflicting_time"}
        /\ NamesNobody(last.result, store)
        /\ last.result = UpdateAppointment(Masked(store), last.id, last.updates,
                                           now).result

C22_Witness ==
    /\ last.op = "update_appointment"
    /\ IsConflict(last.result)
    /\ Len(store) = 2
    /\ last.result.conflicting_time = Strftime12(FromIsoFormat(store[1].start_time))

(***************************************************************************)
(* What the specification says of concurrent writers                       *)
(***************************************************************************)
Done(p) == calls[p].pc = "done" /\ "success" \in DOMAIN calls[p].result
Booked(p) == Done(p) /\ calls[p].result.success
Stored(p) == \E i \in 1..Len(store) : store[i] = calls[p].result.appointment

\* C23: the load-check-mutate-save cycle is not atomic: the step that saves
\* writes the list the call loaded earlier with its own record appended,
\* whatever the file holds by then, and reports success; so when the steps
\* of two calls interleave, both can report success while the store misses
\* one of the two records or holds two overlapping appointments.
C23_SaveWritesWhatWasLoaded ==
    [][ \A p \in Callers :
            (calls[p].pc = "save" /\ calls'[p].pc = "done") =>
                /\ calls'[p].result.success
                /\ store' = Append(calls[p].appointments, calls[p].appointment)
                /\ \A i \in 1..Len(store) :
                        store[i] \notin Range(calls[p].appointments) =>
                            store[i] \notin Range(store') ]_vars

\* a lost update: both calls reported success and the record of one is gone
C23_Witness ==
    /\ Booked(1)
    /\ Booked(2)
    /\ Stored(2)
    /\ ~Stored(1)

(***************************************************************************)
(* What the specification says of bookings at bad times                    *)
(***************************************************************************)
IsBooking == last'.op = "create_appointment"
IsReschedule == last'.op = "update_appointment" /\ "start_time" \in DOMAIN last'.updates
AskedStart == IF IsBooking THEN last'.start_time ELSE last'.updates.start_time
BadTime(start, clock) == ~DayOpen(start) \/ ~InOpeningHours(start) \/ ~NotPast(start, clock)
BadTimeReason(start) ==
    IF ~DayOpen(start) THEN "closed"
    ELSE IF ~InOpeningHours(start) THEN "outside_hours"
    ELSE "past"
\* the slot asked for overlaps no other stored appointment (and the
\* appointment to reschedule exists)
AskedSlotFree ==
    IF IsBooking
    THEN SlotFree(store, AskedStart, DefaultDuration(last'.duration), NoId)
    ELSE /\ WithId(store, last'.id) # {}
         /\ \A i \in WithId(store, last'.id) :
                SlotFree(store, AskedStart, store[i].duration, last'.id)
AllInOpeningHours(appointments) ==
    \A i \in 1..Len(appointments) :
        DayOpen(StartOf(appointments[i])) /\ InOpeningHours(StartOf(appointments[i]))

\* C24 as stated: a booking, or a reschedule of a stored appointment, whose
\* start is in the past, on a closed weekday or outside the day's hours is
\* rejected with reason past, closed or outside_hours and stores nothing.
C24_BadTimeRejectedWithItsReason ==
    [][ ( /\ IsBooking \/ (IsReschedule /\ WithId(store, last'.id) # {})
          /\ BadTime(AskedStart, now) ) =>
            /\ ~last'.result.success
            /\ store' = store
            /\ "reason" \in DOMAIN last'.result
            /\ last'.result.reason \in {"past", "closed", "outside_hours"} ]_vars

\* C24 amended: such a booking or reschedule is rejected and stores
\* nothing; the reason is closed, outside_hours or past (the first that
\* applies) when the slot overlaps no other stored appointment and the
\* appointment to reschedule exists; every stored appointment is on an open
\* weekday inside opening hours, and was not in the past when it was
\* created or rescheduled.
C24_BadTimeRejected ==
    [][ /\ (IsBooking \/ IsReschedule) =>
            IF BadTime(AskedStart, now)
            THEN /\ ~last'.result.success
                 /\ store' = store
                 /\ AskedSlotFree =>
                        /\ "reason" \in DOMAIN last'.result
                        /\ last'.result.reason = BadTimeReason(AskedStart)
            ELSE last'.result.success =>
                    StartOf(last'.result.appointment) = AskedStart
        /\ store' # store => AllInOpeningHours(store')
      ]_vars

\* a booking in the past, of a slot nobody holds, refused as past
C24_Witness ==
    /\ last.op = "create_appointment"
    /\ ~last.result.success
    /\ last.result.reason = "past"
    /\ last.start_time < now
    /\ Len(store) = 1

(***************************************************************************)
(* What the specification says of each step of a turn                      *)
(***************************************************************************)
\* C25: a turn that starts with awaiting_confirmation set and whose message
\* holds a negative keyword and no affirmative keyword executes no action,
\* clears awaiting_confirmation, pending_action and edit_stage, leaves the
\* entities and the store as they were, and ends with intent
\* confirmation_cancelled, without intent detection.
C25_NegativeAbortsConfirmation ==
    [][ ( /\ last'.op = "process_message"
          /\ IsSet(last'.before.awaiting_confirmation)
          /\ Negative(last'.message)
          /\ ~Affirmative(last'.message) ) =>
        /\ last'.executed = "none"
        /\ last'.intent = "confirmation_cancelled"
        /\ ~last'.detected
        /\ store' = store
        /\ last'.session_id \in DOMAIN sessions'
        /\ sessions'[last'.session_id].awaiting_confirmation = NoneVal
        /\ sessions'[last'.session_id].pending_action = NoneVal
        /\ sessions'[last'.session_id].edit_stage = NoneVal
        /\ sessions'[last'.session_id].entities = last'.before.entities ]_vars

\* the final confirmation of an edit, refused
C25_Witness ==
    /\ Kept
    /\ last.intent = "confirmation_cancelled"
    /\ last.before.awaiting_confirmation = "edit"
    /\ last.before.edit_stage = "awaiting_final_confirmation"
    /\ After.edit_stage = NoneVal
    /\ After.entities # EmptyDict

\* the turn went through intent detection and its effective intent is this one
Effective(intent) ==
    last'.op = "process_message" /\ last'.path = "main" /\ last'.intent = intent
Present(entities, field) ==
    field \in DOMAIN entities /\ entities[field] # NoneVal /\ entities[field] # ""

\* C26: in a turn with effective intent book, pending_action becomes book;
\* awaiting_confirmation becomes book when the entities, with this turn's
\* extraction merged in, hold a non-empty patient_name, patient_phone, date
\* and time and no confirmation was pending, and stays as it was otherwise;
\* no booking is executed and the store is as it was.
C26_BookArmsConfirmation ==
    [][ Effective("book") =>
        /\ last'.session_id \in DOMAIN sessions'
        /\ sessions'[last'.session_id].pending_action = "book"
        /\ sessions'[last'.session_id].awaiting_confirmation =
            IF /\ \A field \in {"patient_name", "patient_phone", "date", "time"} :
                    Present(sessions'[last'.session_id].entities, field)
               /\ ~IsSet(last'.before.awaiting_confirmation)
            THEN "book"
            ELSE last'.before.awaiting_confirmation
        /\ last'.executed = "none"
        /\ store' = store
        /\ nextId' = nextId ]_vars

\* a book turn that completes the four fields and arms the confirmation
C26_Witness ==
    /\ Kept
    /\ last.path = "main"
    /\ last.intent = "book"
    /\ ~IsSet(last.before.awaiting_confirmation)
    /\ "date" \notin DOMAIN last.before.entities
    /\ After.awaiting_confirmation = "book"
    /\ After.pending_action = "book"

\* a real change: a date that is not the placeholder, or a time, doctor or reason
RealChange(entities) ==
    \/ Present(entities, "date") /\ entities.date # "date"
    \/ Present(entities, "time")
    \/ Present(entities, "doctor_name")
    \/ Present(entities, "reason")
Gated(session, message) ==
    IsSet(session.awaiting_confirmation) /\ (Affirmative(message) \/ Negative(message))

\* C27: a turn that starts with edit_stage shown_appointment or
\* collecting_changes and is not taken by the confirmation gate keeps the
\* entities it had and merges the extraction into them; if they then hold a
\* real change, awaiting_confirmation becomes edit and edit_stage
\* awaiting_final_confirmation, otherwise edit_stage is collecting_changes
\* and awaiting_confirmation is unset; no update is executed and the intent
\* detector is not called.
C27_EditCollection ==
    [][ ( /\ last'.op = "process_message"
          /\ last'.before.edit_stage \in {"shown_appointment", "collecting_changes"}
          /\ ~Gated(last'.before, last'.message) ) =>
        /\ last'.session_id \in DOMAIN sessions'
        /\ DOMAIN last'.before.entities \subseteq DOMAIN sessions'[last'.session_id].entities
        /\ IF RealChange(sessions'[last'.session_id].entities)
           THEN /\ sessions'[last'.session_id].awaiting_confirmation = "edit"
                /\ sessions'[last'.session_id].edit_stage = "awaiting_final_confirmation"
           ELSE /\ sessions'[last'.session_id].awaiting_confirmation = NoneVal
                /\ sessions'[last'.session_id].edit_stage = "collecting_changes"
        /\ last'.intent = "edit"
        /\ last'.executed = "none"
        /\ ~last'.detected
        /\ store' = store ]_vars

\* the turn after the appointment was shown brings a new time
C27_Witness ==
    /\ Kept
    /\ last.before.edit_stage = "shown_appointment"
    /\ ~RealChange(last.before.entities)
    /\ After.edit_stage = "awaiting_final_confirmation"
    /\ After.awaiting_confirmation = "edit"
    /\ "time" \in DOMAIN After.entities

\* an affirmative message met a pending edit confirmation
ConfirmsEdit ==
    /\ IsTurn
    /\ last.before.awaiting_confirmation = "edit"
    /\ Affirmative(last.message)

\* C28: when an affirmative message meets awaiting_confirmation = edit, the
\* update is executed only if the accumulated entities hold a real change;
\* otherwise no update runs, the store is unchanged, awaiting_confirmation
\* is cleared, edit_stage becomes collecting_changes and pending_action is
\* edit.
C28_ConfirmedEditNeedsRealChange ==
    [][ ConfirmsEdit' =>
        /\ last'.executed = "edit" => RealChange(last'.before.entities)
        /\ ~RealChange(last'.before.entities) =>
              /\ last'.executed = "none"
              /\ store' = store
              /\ Kept'
              /\ After'.awaiting_confirmation = NoneVal
              /\ After'.edit_stage = "collecting_changes"
              /\ After'.pending_action = "edit" ]_vars

PhoneKnown(entities) == Present(entities, "patient_phone")
HasAppointments(appointments, phone) ==
    \E i \in 1..Len(appointments) : appointments[i].patient_phone = phone
Failed(result) == result # NoActionResult /\ ~result.success
Shows(result, appointments, phone) ==
    /\ Succeeded(result)
    /\ Len(result.appointments) > 0
    /\ Range(result.appointments) = {appointments[i] : i \in MineIdx(appointments, phone)}

\* C29: a turn with effective intent edit that starts with no confirmation
\* pending and no edit_stage sets pending_action = edit and nothing else
\* if the phone is unknown; if the phone is known and has appointments,
\* edit_stage becomes shown_appointment, the action result holds them and
\* pending_action is edit; if it has none, the action result is a failure,
\* pending_action is cleared and edit_stage is unset.  The store is not
\* changed.
C29_EditLooksUpAppointments ==
    [][ ( /\ Effective("edit")
          /\ last'.before.awaiting_confirmation = NoneVal
          /\ last'.before.edit_stage = NoneVal ) =>
        /\ store' = store
        /\ last'.executed \in {"none", "lookup"}
        /\ sessions'[last'.session_id].awaiting_confirmation = NoneVal
        /\ IF ~PhoneKnown(sessions'[last'.session_id].entities)
           THEN /\ sessions'[last'.session_id].pending_action = "edit"
                /\ sessions'[last'.session_id].edit_stage = NoneVal
                /\ last'.action_result = NoActionResult
           ELSE IF HasAppointments(store, sessions'[last'.session_id].entities.patient_phone)
           THEN /\ sessions'[last'.session_id].pending_action = "edit"
                /\ sessions'[last'.session_id].edit_stage = "shown_appointment"
                /\ Shows(last'.action_result, store,
                         sessions'[last'.session_id].entities.patient_phone)
           ELSE /\ sessions'[last'.session_id].pending_action = NoneVal
                /\ sessions'[last'.session_id].edit_stage = NoneVal
                /\ Failed(last'.action_result) ]_vars

\* the appointment booked earlier is shown to the patient who asks to change it
C29_Witness ==
    /\ Kept
    /\ last.path = "main"
    /\ last.intent = "edit"
    /\ last.before.edit_stage = NoneVal
    /\ last.before.awaiting_confirmation = NoneVal
    /\ After.edit_stage = "shown_appointment"
    /\ After.pending_action = "edit"
    /\ Shows(last.action_result, store, After.entities.patient_phone)

\* C30: a turn with effective intent cancel that starts with no
\* confirmation pending sets pending_action = cancel and nothing else if
\* the phone is unknown; if the phone is known and has appointments,
\* awaiting_confirmation becomes cancel and the action result holds them;
\* if it has none, the action result is a failure, pending_action is
\* cleared and awaiting_confirmation is unset.  No appointment is removed.
C30_CancelAsksFirst ==
    [][ ( /\ Effective("cancel")
          /\ last'.before.awaiting_confirmation = NoneVal ) =>
        /\ store' = store
        /\ last'.executed \in {"none", "lookup"}
        /\ sessions'[last'.session_id].edit_stage = last'.before.edit_stage
        /\ IF ~PhoneKnown(sessions'[last'.session_id].entities)
           THEN /\ sessions'[last'.session_id].pending_action = "cancel"
                /\ sessions'[last'.session_id].awaiting_confirmation = NoneVal
                /\ last'.action_result = NoActionResult
           ELSE IF HasAppointments(store, sessions'[last'.session_id].entities.patient_phone)
           THEN /\ sessions'[last'.session_id].pending_action = "cancel"
                /\ sessions'[last'.session_id].awaiting_confirmation = "cancel"
                /\ Shows(last'.action_result, store,
                         sessions'[last'.session_id].entities.patient_phone)
           ELSE /\ sessions'[last'.session_id].pending_action = NoneVal
                /\ sessions'[last'.session_id].awaiting_confirmation = NoneVal
                /\ Failed(last'.action_result) ]_vars

\* the patient asks to delete the appointment booked earlier and is asked
\* to confirm; the appointment is still stored
C30_Witness ==
    /\ Kept
    /\ last.path = "main"
    /\ last.intent = "cancel"
    /\ last.before.awaiting_confirmation = NoneVal
    /\ After.awaiting_confirmation = "cancel"
    /\ After.pending_action = "cancel"
    /\ Shows(last.action_result, store, After.entities.patient_phone)
    /\ HasAppointments(store, After.entities.patient_phone)

\* C31: a turn with effective intent view runs view_appointments in that
\* turn when the phone is known after extraction, whatever confirmation is
\* pending, and ends with pending_action unset; with the phone unknown it
\* executes nothing and ends with pending_action = view.  It never changes
\* awaiting_confirmation or the store.
C31_ViewRunsAtOnce ==
    [][ Effective("view") =>
        /\ store' = store
        /\ sessions'[last'.session_id].awaiting_confirmation
               = last'.before.awaiting_confirmation
        /\ IF PhoneKnown(sessions'[last'.session_id].entities)
           THEN /\ last'.executed = "view"
                /\ Succeeded(last'.action_result)
                /\ Range(last'.action_result.appointments)
                       = {store[i] : i \in MineIdx(store,
                              sessions'[last'.session_id].entities.patient_phone)}
                /\ sessions'[last'.session_id].pending_action = NoneVal
           ELSE /\ last'.executed = "none"
                /\ last'.action_result = NoActionResult
                /\ sessions'[last'.session_id].pending_action = "view" ]_vars

\* the appointments are listed while a booking confirmation is pending
C31_Witness ==
    /\ Kept
    /\ last.path = "main"
    /\ last.intent = "view"
    /\ last.executed = "view"
    /\ Len(last.action_result.appointments) > 0
    /\ last.before.awaiting_confirmation = "book"
    /\ After.awaiting_confirmation = "book"
    /\ After.pending_action = NoneVal

\* the messages in which no intent keyword occurs, and those with an exit
\* keyword
NoKeywordMessages == {message \in AllMessages : FirstMatching(message) = "unclear"}
ExitSaid == {message \in AllMessages : SaysExit(message)}
\* keyword matching was reached and yields unclear
MatchedUnclear ==
    /\ IsTurn
    /\ last.detected
    /\ last.message \in NoKeywordMessages
    /\ ~InEditFlow(last.before.edit_stage) \/ last.message \in ExitSaid

\* C32: when keyword matching yields unclear and the session has a
\* pending_action, the turn goes on with the pending action as its intent
\* and records it in last_intent; with no pending_action the intent is
\* unclear, entity extraction runs, and no action branch is taken: nothing
\* is executed and pending_action, awaiting_confirmation, edit_stage and
\* the store are as they were.
C32_StickyIntent ==
    [][ MatchedUnclear' =>
        /\ Kept'
        /\ last'.path = "main"
        /\ last'.extraction
        /\ IF IsSet(last'.before.pending_action)
           THEN /\ last'.intent = last'.before.pending_action
                /\ last'.intent \in {"book", "view", "edit", "cancel"}
                /\ After'.last_intent = last'.before.pending_action
           ELSE /\ last'.intent = "unclear"
                /\ After'.last_intent = "unclear"
                /\ last'.executed = "none"
                /\ last'.action_result = NoActionResult
                /\ After'.pending_action = NoneVal
                /\ After'.awaiting_confirmation = last'.before.awaiting_confirmation
                /\ After'.edit_stage = last'.before.edit_stage
                /\ store' = store ]_vars

\* the phone number alone, sent while a cancellation is being prepared,
\* is taken as part of the cancellation
C32_Witness ==
    /\ MatchedUnclear
    /\ last.before.pending_action = "cancel"
    /\ last.intent = "cancel"
    /\ After.last_intent = "cancel"
    /\ last.executed = "lookup"

\* a message without keyword in a fresh session: its entities are extracted
C32_WitnessUnclear ==
    /\ MatchedUnclear
    /\ last.before.pending_action = NoneVal
    /\ last.intent = "unclear"
    /\ PhoneKnown(After.entities)

\* the turn ran a confirmed action with success, or ended the session
CompletesOrEnds ==
    \/ last.deleted
    \/ last.path = "confirm" /\ Succeeded(last.action_result)

\* C33: after a turn that neither completes an action successfully nor
\* ends the session, every field the entities had before the turn is
\* still present, with the value the extractor returned for it in this
\* turn if it returned one, and with its previous value otherwise.
C33_MergeKeepsFields ==
    [][ (IsTurn' /\ ~CompletesOrEnds') =>
        /\ Kept'
        /\ \A field \in DOMAIN last'.before.entities :
              /\ field \in DOMAIN After'.entities
              /\ After'.entities[field] =
                    IF field \in DOMAIN last'.extracted
                    THEN last'.extracted[field]
                    ELSE last'.before.entities[field] ]_vars

\* the placeholder date replaces the date given earlier; name, phone and
\* time stay as they were
C33_Witness ==
    /\ Kept
    /\ ~CompletesOrEnds
    /\ last.extracted = [date |-> "date"]
    /\ DOMAIN last.before.entities = {"patient_name", "patient_phone", "date", "time"}
    /\ last.before.entities.date = "today"
    /\ After.entities = [last.before.entities EXCEPT !.date = "date"]

GoodbyeSaid == {message \in AllMessages : FirstMatching(message) = "goodbye"}
\* a message with an exit keyword arrives while the edit flow is active
ExitsEditFlow ==
    /\ IsTurn
    /\ InEditFlow(last.before.edit_stage)
    /\ last.message \in ExitSaid

\* C34: in a session whose edit_stage is shown_appointment,
\* collecting_changes or awaiting_final_confirmation, a message with an
\* exit keyword is not taken as a continuation of the edit: the turn does
\* not collect changes, and a goodbye ends the session.
C34_ExitLeavesEditFlow ==
    [][ ExitsEditFlow' =>
        /\ last'.path # "edit_collect"
        /\ last'.message \in GoodbyeSaid => last'.deleted ]_vars

\* the weekday a day name names, Monday = 0
NamedWeekday ==
    [monday |-> 0, lundi |-> 0, tuesday |-> 1, mardi |-> 1, wednesday |-> 2,
     mercredi |-> 2, thursday |-> 3, jeudi |-> 3, friday |-> 4, vendredi |-> 4,
     saturday |-> 5, samedi |-> 5, sunday |-> 6, dimanche |-> 6]
ParsedWeekdayName ==
    /\ last.op = "parse_datetime"
    /\ last.date_str \in DOMAIN NamedWeekday
    /\ last.result # NoDatetime
DaysAhead == DayOf(last.result) - DayOf(last.clock)

\* C35: for a weekday-name date parse_datetime yields the day d days after
\* today with d in 1..7 and (today's weekday + d) mod 7 the named weekday;
\* when today has the named weekday d is 7, so the day is always strictly
\* later than today.
C35_NextNamedWeekday ==
    ParsedWeekdayName =>
        /\ DaysAhead \in 1..7
        /\ (WeekdayOf(last.clock) + DaysAhead) % 7 = NamedWeekday[last.date_str]
        /\ WeekdayOf(last.result) = NamedWeekday[last.date_str]
        /\ NamedWeekday[last.date_str] = WeekdayOf(last.clock) => DaysAhead = 7

\* 'vendredi' asked late on a Friday is the Friday of the week after
C35_Witness ==
    /\ ParsedWeekdayName
    /\ last.date_str = "vendredi"
    /\ WeekdayOf(last.clock) = 4
    /\ HourOf(last.clock) = 23
    /\ DaysAhead = 7
    /\ HourOf(last.result) = 14

\* C36: in every session, awaiting_confirmation = edit exactly when
\* edit_stage = awaiting_final_confirmation.
C36_EditConfirmationIsFinalStage ==
    \A session_id \in DOMAIN sessions :
        (sessions[session_id].awaiting_confirmation = "edit")
            <=> (sessions[session_id].edit_stage = "awaiting_final_confirmation")

\* the final confirmation was armed, then the update it asked about ran and
\* both were cleared together
C36_Witness ==
    /\ Kept
    /\ last.path = "confirm"
    /\ last.executed = "edit"
    /\ last.before.awaiting_confirmation = "edit"
    /\ last.before.edit_stage = "awaiting_final_confirmation"
    /\ After.awaiting_confirmation = NoneVal
    /\ After.edit_stage = NoneVal

\* C37: in every session, whenever awaiting_confirmation is set,
\* pending_action names the same action.
C37_PendingIsTheAwaitedAction ==
    \A session_id \in DOMAIN sessions :
        IsSet(sessions[session_id].awaiting_confirmation) =>
            sessions[session_id].pending_action
                = sessions[session_id].awaiting_confirmation

\* C38: a turn that starts with awaiting_confirmation set and whose
\* message is affirmative or negative ends with awaiting_confirmation
\* unset, whatever the awaited action and the entities.
C38_GateAlwaysResolves ==
    [][ (IsTurn' /\ Gated(last'.before, last'.message)) =>
        /\ Kept'
        /\ After'.awaiting_confirmation = NoneVal ]_vars

\* the last turn armed a cancel confirmation and showed appointments
ArmsCancel ==
    /\ Kept
    /\ last.path = "main"
    /\ last.intent = "cancel"
    /\ last.before.awaiting_confirmation = NoneVal
    /\ After.awaiting_confirmation = "cancel"
    /\ Succeeded(last.action_result)
    /\ Len(last.action_result.appointments) > 0
\* the last turn was the affirmed cancellation, and it removed an appointment
AffirmedCancel ==
    /\ IsTurn
    /\ last.path = "confirm"
    /\ last.executed = "cancel"
    /\ Succeeded(last.action_result)

\* C40: when the turn after the one that armed the cancel confirmation
\* affirms it, the appointment removed from the store is the first of the
\* appointments the arming turn had as action result.
C40_ShownAppointmentIsCancelled ==
    [][ (ArmsCancel /\ AffirmedCancel') =>
        /\ Range(store) \ Range(store') = {last.action_result.appointments[1]}
        /\ last'.action_result.cancelled_appointment
               = last.action_result.appointments[1] ]_vars

\* C39: a process_message turn or a clear_session for one session id
\* leaves every other session as it was: it neither creates nor deletes
\* it, and its history, entities, last_intent, pending_action,
\* awaiting_confirmation and edit_stage are unchanged.
C39_SessionsIsolated ==
    [][ \A other \in TwoSessionIds :
          (last'.op \in {"process_message", "clear_session"}
              /\ last'.session_id # other) =>
            /\ other \in DOMAIN sessions' <=> other \in DOMAIN sessions
            /\ other \in DOMAIN sessions => sessions'[other] = sessions[other] ]_vars

\* session s2 confirms and cancels the appointment whose cancellation
\* session s1 is still waiting to have confirmed; s1 is as it was
C39_Witness ==
    /\ IsTurn
    /\ last.session_id = "s2"
    /\ last.executed = "cancel"
    /\ Succeeded(last.action_result)
    /\ "s1" \in DOMAIN sessions
    /\ sessions["s1"].awaiting_confirmation = "cancel"
    /\ sessions["s1"].pending_action = "cancel"
    /\ PhoneKnown(sessions["s1"].entities)
    /\ Len(sessions["s1"].history) = 2

====
